---- MODULE Spec2Model ----
(***************************************************************************)
(* Harvey: the capture -> plan -> narrate -> execute control loop of       *)
(* src/harvey.py, its planner (Harvey.think) and its action executor       *)
(* (Harvey.execute) with the input primitives it drives, the coordinate    *)
(* mapper (_transform_coords), the calibration store (the file .env) with  *)
(* the dialogue that writes it (calibrate_interactive), and main.          *)
(*                                                                         *)
(* Text.  A Python string is modelled as the sequence of its lexemes: the  *)
(* concatenation of the lexemes is the string.  A lexeme is a word the     *)
(* code matches as a whole ("Action:", "left_click", "Please "), or a      *)
(* single character (a digit, a letter of a typed text, a quote).  Lines   *)
(* are segmented into the longest lexemes of the alphabet, so a prefix or  *)
(* substring test of the code falls on lexeme boundaries, except for the   *)
(* pairs listed in ProperPrefix and SubstringOf.                           *)
(***************************************************************************)
EXTENDS Integers, Sequences, FiniteSets, TLC

(***************************************************************************)
(* Bounds of the model.                                                    *)
(***************************************************************************)
\* longest spelled number (digits and dots) in an error message
MaxNumLen == 3
\* longest reply of the loop specification, in lines
MaxReplyLines == 2

(***************************************************************************)
(* Program constants.                                                      *)
(***************************************************************************)
\* for step in range(20)
MaxSteps == 20

(***************************************************************************)
(* String helpers.                                                         *)
(***************************************************************************)
\* lexemes that start with a shorter pattern the code tests with startswith
ProperPrefix ==
  { <<"**See:**", "**">>, <<"**Think:**", "**">>, <<"**Action:**", "**">>,
    <<"seconds", "s">> }

\* lexemes that contain a word the code tests with the in operator
SubstringOf ==
  { <<"research", "search">>, <<"browsers", "browser">>,
    <<"web_search", "search">> }

\* str.lower() on a lexeme
Lower(lex) ==
  CASE lex = "Safari" -> "safari"
    [] lex = "Search" -> "search"
    [] lex = "Browser" -> "browser"
    [] OTHER -> lex

LexStartsWith(lex, w) == lex = w \/ <<lex, w>> \in ProperPrefix

LexContains(lex, w) == lex = w \/ <<lex, w>> \in SubstringOf

\* s.startswith(w)
StartsWith(s, w) == s # <<>> /\ LexStartsWith(Head(s), w)

\* w in s
Contains(s, w) == \E i \in 1..Len(s) : LexContains(s[i], w)

\* w in s.lower()
ContainsLower(s, w) == \E i \in 1..Len(s) : LexContains(Lower(s[i]), w)

RECURSIVE LStrip(_)
LStrip(s) == IF s # <<>> /\ Head(s) = " " THEN LStrip(Tail(s)) ELSE s

RECURSIVE RStrip(_)
RStrip(s) ==
  IF s # <<>> /\ s[Len(s)] = " " THEN RStrip(SubSeq(s, 1, Len(s) - 1)) ELSE s

\* s.strip()
Strip(s) == RStrip(LStrip(s))

\* s.replace(c, empty)
Remove(s, c) == SelectSeq(s, LAMBDA x : x # c)

Digits == {"0", "1", "2", "3", "4", "5", "6", "7", "8", "9"}

DigitValue(d) ==
  CASE d = "0" -> 0 [] d = "1" -> 1 [] d = "2" -> 2 [] d = "3" -> 3
    [] d = "4" -> 4 [] d = "5" -> 5 [] d = "6" -> 6 [] d = "7" -> 7
    [] d = "8" -> 8 [] OTHER -> 9

\* the length of the longest run of lexemes of `set` in s starting at j
RECURSIVE RunLen(_, _, _)
RunLen(s, j, set) ==
  IF j <= Len(s) /\ s[j] \in set THEN 1 + RunLen(s, j + 1, set) ELSE 0

\* a missing lexeme, where the code has None for a string
None == "None"

\* a missing integer, where the code has None for a number
NoNumber == 0 - 1

\* the lexeme of the backquote character, which a TLA+ string cannot hold
BackTick == "<backquote>"

(***************************************************************************)
(* Harvey.think: the reply parser (harvey.py 600-640).                     *)
(***************************************************************************)
\* the command names of the fallback scan (harvey.py 624)
FallbackCommands ==
  {"left_click", "type_text", "bulk_type", "hotkey", "done", "wait", "scroll"}

\* wait(1000)
DefaultAction == <<"wait", "(", "1", "0", "0", "0", ")">>

\* done()
DoneAction == <<"done", "(", ")">>

\* hotkey("cmd+t")
NewTabAction == <<"hotkey", "(", "\"", "cmd", "+", "t", "\"", ")">>

\* the for loop over the reply's lines: acc is [see, think, action]
RECURSIVE ParseLines(_, _, _)
ParseLines(lines, i, acc) ==
  IF i > Len(lines) THEN acc
  ELSE
    LET line == Strip(lines[i]) IN
    IF StartsWith(line, "See:")
      THEN ParseLines(lines, i + 1, [acc EXCEPT !.see = Strip(Tail(line))])
    ELSE IF StartsWith(line, "Think:")
      THEN ParseLines(lines, i + 1, [acc EXCEPT !.think = Strip(Tail(line))])
    ELSE IF StartsWith(line, "Action:")
      THEN [acc EXCEPT !.action = Strip(Tail(line))]
    ELSE IF StartsWith(line, "**See:**")
      THEN ParseLines(lines, i + 1, [acc EXCEPT !.see = Strip(Tail(line))])
    ELSE IF StartsWith(line, "**Think:**")
      \* line[9:] of a 10-character label keeps its last "*"
      THEN ParseLines(lines, i + 1,
                      [acc EXCEPT !.think = Strip(<<"*">> \o Tail(line))])
    ELSE IF StartsWith(line, "**Action:**")
      THEN [acc EXCEPT !.action = Strip(Tail(line))]
    ELSE IF /\ acc.see = <<>> /\ acc.think = <<>> /\ acc.action = <<>>
            /\ line # <<>> /\ ~StartsWith(line, "**")
            /\ \E cmd \in FallbackCommands : Contains(line, cmd)
      THEN [acc EXCEPT !.action = line]
    ELSE ParseLines(lines, i + 1, acc)

\* the backticks removed and the result stripped, when action is not empty
CleanAction(action) ==
  IF action # <<>> THEN Strip(Remove(action, BackTick)) ELSE action

\* the try block once the reply text is there: [action, see]
ParseReply(lines) ==
  LET acc == ParseLines(lines, 1, [see |-> <<>>, think |-> <<>>, action |-> <<>>])
      action == CleanAction(acc.action)
  IN  [action |-> IF action # <<>> THEN action ELSE DefaultAction,
       see |-> acc.see]

(***************************************************************************)
(* Harvey.think: the except handler (harvey.py 642-664).                   *)
(***************************************************************************)
\* "429" in error_str: the lexeme, or the digits 4, 2, 9 in a row
Has429(msg) ==
  \E i \in 1..Len(msg) :
     \/ msg[i] = "429"
     \/ i + 2 <= Len(msg) /\ msg[i] = "4" /\ msg[i + 1] = "2" /\ msg[i + 2] = "9"

\* a variant that takes every error for a rate-limit error
EveryErrorRateLimited(msg) == TRUE

\* "429" in error_str or "RESOURCE_EXHAUSTED" in error_str
RateLimited(msg) == Has429(msg) \/ Contains(msg, "RESOURCE_EXHAUSTED")

\* the number pattern of the retry regex (digits, an optional dot, digits,
\* then s) matched at position j: the group as [ok, int, frac], not ok
\* without a match.
\* Every repetition is followed by a lexeme it cannot match, so the greedy
\* match is the only one.
NumberAt(msg, j) ==
  LET n == RunLen(msg, j, Digits)
      dot == IF j + n <= Len(msg) /\ msg[j + n] = "." THEN 1 ELSE 0
      m == RunLen(msg, j + n + dot, Digits)
      e == j + n + dot + m
  IN  IF n >= 1 /\ e <= Len(msg) /\ LexStartsWith(msg[e], "s")
        THEN [ok |-> TRUE,
              int |-> SubSeq(msg, j, j + n - 1),
              frac |-> SubSeq(msg, j + n + dot, e - 1)]
        ELSE [ok |-> FALSE]

\* re.search of the retry pattern in error_str: the leftmost match
RECURSIVE RetrySearch(_, _)
RetrySearch(msg, i) ==
  IF i + 1 > Len(msg) THEN [ok |-> FALSE]
  ELSE IF msg[i] = "Please " /\ msg[i + 1] = "retry in " /\ NumberAt(msg, i + 2).ok
    THEN NumberAt(msg, i + 2)
  ELSE RetrySearch(msg, i + 1)

RECURSIVE DropLeadingZeros(_)
DropLeadingZeros(d) ==
  IF Len(d) > 1 /\ Head(d) = "0" THEN DropLeadingZeros(Tail(d)) ELSE d

RECURSIVE DropTrailingZeros(_)
DropTrailingZeros(d) ==
  IF d # <<>> /\ d[Len(d)] = "0"
    THEN DropTrailingZeros(SubSeq(d, 1, Len(d) - 1)) ELSE d

\* float(group): a decimal number, [int, frac] in digits
ToFloat(g) == [int |-> DropLeadingZeros(g.int), frac |-> DropTrailingZeros(g.frac)]

Succ(d) ==
  CASE d = "0" -> "1" [] d = "1" -> "2" [] d = "2" -> "3" [] d = "3" -> "4"
    [] d = "4" -> "5" [] d = "5" -> "6" [] d = "6" -> "7" [] d = "7" -> "8"
    [] d = "8" -> "9" [] OTHER -> "0"

\* the digits of n + 1
RECURSIVE Increment(_)
Increment(d) ==
  IF d = <<>> THEN <<"1">>
  ELSE IF d[Len(d)] = "9"
    THEN Increment(SubSeq(d, 1, Len(d) - 1)) \o <<"0">>
  ELSE SubSeq(d, 1, Len(d) - 1) \o <<Succ(d[Len(d)])>>

\* a call time.sleep(secs), secs a decimal number in digits
Sleep(int, frac) == [sleeps |-> TRUE, int |-> int, frac |-> frac]

\* no call of time.sleep
NoSleep == [sleeps |-> FALSE]

\* a variant without the one-second buffer: time.sleep(delay)
SleepSameDuration(v) == Sleep(v.int, v.frac)

\* time.sleep(delay + 1)
PlusOneSecond(v) == Sleep(Increment(v.int), v.frac)

\* time.sleep(10)
DefaultWait == Sleep(<<"1", "0">>, <<>>)

\* the call of time.sleep the handler makes
SleepRequest(msg) ==
  IF RateLimited(msg)
    THEN IF RetrySearch(msg, 1).ok
           THEN PlusOneSecond(ToFloat(RetrySearch(msg, 1)))
           ELSE DefaultWait
    ELSE NoSleep

\* the whole seconds a 64-bit count of nanoseconds holds: 2^63 \div 10^9
SleepLimit == <<"9", "2", "2", "3", "3", "7", "2", "0", "3", "6">>

\* a > b, for the digits of two naturals without leading zeros
RECURSIVE DigitsGreater(_, _)
DigitsGreater(a, b) ==
  IF Len(a) # Len(b) THEN Len(a) > Len(b)
  ELSE IF a = <<>> THEN FALSE
  ELSE IF Head(a) # Head(b) THEN DigitValue(Head(a)) > DigitValue(Head(b))
  ELSE DigitsGreater(Tail(a), Tail(b))

\* time.sleep(secs) raises OverflowError instead of sleeping: the duration
\* does not fit the clock
SleepRaises(req) == req.sleeps /\ DigitsGreater(req.int, SleepLimit)

\* a variant that returns the new tab when the task has either keyword
FallbackOnEitherKeyword(task, msg) ==
  IF /\ RateLimited(msg)
     /\ \/ ContainsLower(task, "safari") \/ ContainsLower(task, "browser")
        \/ ContainsLower(task, "search")
    THEN NewTabAction
    ELSE DoneAction

\* the action the handler returns
FallbackAction(task, msg) ==
  IF /\ RateLimited(msg)
     /\ ContainsLower(task, "safari") \/ ContainsLower(task, "browser")
     /\ ContainsLower(task, "search")
    THEN NewTabAction
    ELSE DoneAction

(***************************************************************************)
(* Harvey.think as a whole.  resp is what generate_content does: a reply   *)
(* with a text [kind |-> "text", lines], a reply whose text is None        *)
(* [kind |-> "notext"], or a raised error [kind |-> "error", msg].         *)
(* The result: the action returned (empty when think raises), the call of  *)
(* time.sleep, the new self.last_see, the number of generate_content calls.*)
(***************************************************************************)
\* str(e) of the AttributeError response.text.strip() raises on None
NoTextError ==
  <<"'NoneType'", " ", "object", " ", "has", " ", "no", " ", "attribute", " ",
    "'strip'">>

\* error_str = str(e)
ErrorStr(resp) == IF resp.kind = "error" THEN resp.msg ELSE NoTextError

\* a variant that asks the collaborator again after an error
ThinkRetrying(task, resp, lastSee) ==
  [action |-> DoneAction,
   sleep |-> NoSleep,
   raised |-> FALSE,
   see |-> lastSee,
   infers |-> IF resp.kind = "text" THEN 1 ELSE 2]

Think(task, resp, lastSee) ==
  IF resp.kind = "text"
    THEN [action |-> ParseReply(resp.lines).action,
          sleep |-> NoSleep,
          raised |-> FALSE,
          see |-> ParseReply(resp.lines).see,
          infers |-> 1]
    ELSE [action |-> IF SleepRaises(SleepRequest(ErrorStr(resp)))
                       THEN <<>> ELSE FallbackAction(task, ErrorStr(resp)),
          sleep |-> SleepRequest(ErrorStr(resp)),
          raised |-> SleepRaises(SleepRequest(ErrorStr(resp))),
          see |-> lastSee,
          infers |-> 1]

(***************************************************************************)
(* The extractors of Harvey.execute (harvey.py 901-929).                   *)
(***************************************************************************)
\* the least index >= i of a lexeme of s that is in set; 0 when there is none
RECURSIVE IndexFrom(_, _, _)
IndexFrom(s, i, set) ==
  IF i > Len(s) THEN 0
  ELSE IF s[i] \in set THEN i
  ELSE IndexFrom(s, i + 1, set)

\* _extract_text: the first quoted substring, not found without two quotes
ExtractText(text) ==
  LET a == IndexFrom(text, 1, {"\""})
      b == IF a = 0 THEN 0 ELSE IndexFrom(text, a + 1, {"\""})
  IN  IF b = 0 THEN [found |-> FALSE, text |-> <<>>]
      ELSE [found |-> TRUE, text |-> SubSeq(text, a + 1, b - 1)]

\* int(digits)
RECURSIVE ToNat(_)
ToNat(d) ==
  IF d = <<>> THEN 0
  ELSE 10 * ToNat(SubSeq(d, 1, Len(d) - 1)) + DigitValue(d[Len(d)])

\* _extract_number: the first parenthesised run of digits, as an integer
RECURSIVE ExtractNumberFrom(_, _)
ExtractNumberFrom(text, i) ==
  IF i > Len(text) THEN NoNumber
  ELSE
    LET n == RunLen(text, i + 1, Digits) IN
    IF text[i] = "(" /\ n >= 1 /\ i + n + 1 <= Len(text) /\ text[i + n + 1] = ")"
      THEN ToNat(SubSeq(text, i + 1, i + n))
      ELSE ExtractNumberFrom(text, i + 1)

ExtractNumber(text) == ExtractNumberFrom(text, 1)

(***************************************************************************)
(* Input events.  CGEventPost of a keyboard event is [type, code, flags];  *)
(* of a mouse event [type, x, y]; of a scroll event [type, v, h].          *)
(***************************************************************************)
\* kCGEventFlagMaskCommand
CommandFlag == 1048576
\* shift flag
ShiftFlag == 131072
\* option flag
OptionFlag == 524288
\* control flag
ControlFlag == 262144

KeyDown(code, flags) == [type |-> "key_down", code |-> code, flags |-> flags]
KeyUp(code) == [type |-> "key_up", code |-> code, flags |-> 0]

LowerLetters ==
  <<"a", "b", "c", "d", "e", "f", "g", "h", "i", "j", "k", "l", "m",
    "n", "o", "p", "q", "r", "s", "t", "u", "v", "w", "x", "y", "z">>

UpperLetters ==
  <<"A", "B", "C", "D", "E", "F", "G", "H", "I", "J", "K", "L", "M",
    "N", "O", "P", "Q", "R", "S", "T", "U", "V", "W", "X", "Y", "Z">>

\* the key codes of the letters a..z, in order
LetterCodes ==
  <<0, 11, 8, 2, 14, 3, 5, 4, 34, 38, 40, 37, 46,
    45, 31, 35, 12, 15, 1, 17, 32, 9, 13, 7, 16, 6>>

\* the key codes of the digits 0..9, in order
DigitCodes == <<29, 18, 19, 20, 21, 23, 22, 26, 28, 25>>

IsUpper(c) == \E i \in 1..26 : UpperLetters[i] = c

\* char.lower()
LowerChar(c) ==
  IF IsUpper(c) THEN LowerLetters[CHOOSE i \in 1..26 : UpperLetters[i] = c]
  ELSE c

\* the code of a letter or digit, NoNumber for any other lexeme
AlnumCode(c) ==
  IF \E i \in 1..26 : LowerLetters[i] = c
    THEN LetterCodes[CHOOSE i \in 1..26 : LowerLetters[i] = c]
  ELSE IF c \in Digits THEN DigitCodes[DigitValue(c) + 1]
  ELSE NoNumber

\* the characters key_map maps to None
UntypableChars == {"(", ")", "+"}

\* key_map of type_text: the code of a lower-case character, NoNumber when
\* the character is not a key of the map
TypeKeyCode(c) ==
  CASE c = " " -> 49 [] c = "." -> 47 [] c = "/" -> 44 [] c = "-" -> 27
    [] c = "=" -> 24 [] c = "," -> 43 [] c = ";" -> 41 [] c = "'" -> 39
    [] c = "[" -> 33 [] c = "]" -> 30 [] c = "\\" -> 42
    [] c = BackTick -> 50
    [] OTHER -> AlnumCode(c)

\* key_codes of hotkey
HotKeyCode(k) ==
  CASE k = "space" -> 49 [] k = "return" -> 36 [] k = "enter" -> 36
    [] k = "tab" -> 48
    [] OTHER -> AlnumCode(k)

\* type_text(text): the events of the for loop over the characters
RECURSIVE TypeTextEvents(_)
TypeTextEvents(text) ==
  IF text = <<>> THEN <<>>
  ELSE
    LET char == Head(text)
        code == TypeKeyCode(LowerChar(char))
    IN  IF LowerChar(char) \in UntypableChars \/ code = NoNumber
          THEN TypeTextEvents(Tail(text))
          ELSE <<KeyDown(code, IF IsUpper(char) THEN ShiftFlag ELSE 0), KeyUp(code)>>
               \o TypeTextEvents(Tail(text))

\* a variant that stops at the first character it cannot type
TypeTextAborting(q, text) ==
  IF ~q THEN <<>>
  ELSE LET bad == { i \in 1..Len(text) :
                      LowerChar(text[i]) \in UntypableChars
                        \/ TypeKeyCode(LowerChar(text[i])) = NoNumber }
       IN  IF bad = {} THEN TypeTextEvents(text)
           ELSE TypeTextEvents(
                  SubSeq(text, 1, (CHOOSE i \in bad : \A j \in bad : i <= j) - 1))

\* type_text, which does nothing without Quartz
TypeText(q, text) == IF q THEN TypeTextEvents(text) ELSE <<>>

\* key_combo.split("+"): the parts between the plus signs
RECURSIVE SplitPlus(_, _)
SplitPlus(s, cur) ==
  IF s = <<>> THEN <<cur>>
  ELSE IF Head(s) = "+" THEN <<cur>> \o SplitPlus(Tail(s), <<>>)
  ELSE SplitPlus(Tail(s), Append(cur, Head(s)))

\* a part of the combo as a key name: one lexeme, lower-cased
PartKey(part) == IF Len(part) = 1 THEN LowerChar(Lower(part[1])) ELSE None

HasModifier(mods, names) ==
  \E i \in 1..Len(mods) : Len(mods[i]) = 1 /\ mods[i][1] \in names

\* the flags of the modifiers of a combo
ModifierFlags(mods) ==
    (IF HasModifier(mods, {"cmd", "command"}) THEN CommandFlag ELSE 0)
  + (IF HasModifier(mods, {"shift"}) THEN ShiftFlag ELSE 0)
  + (IF HasModifier(mods, {"alt", "option"}) THEN OptionFlag ELSE 0)
  + (IF HasModifier(mods, {"ctrl", "control"}) THEN ControlFlag ELSE 0)

\* the events of a combo of several parts: the last part is the key, the
\* parts before it are the modifiers
ComboEvents(parts) ==
  LET key == PartKey(parts[Len(parts)])
      mods == SubSeq(parts, 1, Len(parts) - 1)
  IN  IF key # None /\ HotKeyCode(key) # NoNumber
        THEN <<KeyDown(HotKeyCode(key), ModifierFlags(mods)), KeyUp(HotKeyCode(key))>>
        ELSE <<>>

\* hotkey(key_combo): the events posted
HotkeyEvents(combo) ==
  IF \E i \in 1..Len(combo) : combo[i] = "+"
    THEN
      CHOOSE evs \in { ComboEvents(parts) : parts \in {SplitPlus(combo, <<>>)} } : TRUE
    ELSE
      IF PartKey(combo) # None /\ HotKeyCode(PartKey(combo)) # NoNumber
        THEN <<KeyDown(HotKeyCode(PartKey(combo)), 0), KeyUp(HotKeyCode(PartKey(combo)))>>
        ELSE <<>>

\* a variant that posts the keys whether or not Quartz was imported
HotkeyUnguarded(q, combo) == HotkeyEvents(combo)

\* hotkey, which does nothing without Quartz
Hotkey(q, combo) == IF q THEN HotkeyEvents(combo) ELSE <<>>

\* the scroll amounts (vertical, horizontal) of scroll(direction, clicks=5)
ScrollClicks == 5

ScrollEvents(direction) ==
  LET d == IF Len(direction) = 1 THEN Lower(direction[1]) ELSE None IN
  CASE d = "down" -> <<[type |-> "scroll", v |-> ScrollClicks, h |-> 0]>>
    [] d = "up" -> <<[type |-> "scroll", v |-> 0 - ScrollClicks, h |-> 0]>>
    [] d = "right" -> <<[type |-> "scroll", v |-> 0, h |-> ScrollClicks]>>
    [] d = "left" -> <<[type |-> "scroll", v |-> 0, h |-> 0 - ScrollClicks]>>
    [] OTHER -> <<>>

Scroll(q, direction) == IF q THEN ScrollEvents(direction) ELSE <<>>

(***************************************************************************)
(* The workflows of Harvey (harvey.py 768-805).                            *)
(***************************************************************************)
CmdSpace == <<"cmd", "+", "space">>
CmdT == <<"cmd", "+", "t">>
CmdL == <<"cmd", "+", "l">>
Enter == <<"enter">>
SafariName == <<"S", "a", "f", "a", "r", "i">>

\* _open_app_workflow
OpenAppWorkflow(q, name) == Hotkey(q, CmdSpace) \o TypeText(q, name) \o Hotkey(q, Enter)

\* _web_search_workflow
WebSearchWorkflow(q, term) ==
  OpenAppWorkflow(q, SafariName) \o Hotkey(q, CmdT)
    \o TypeText(q, term \o <<" ">>) \o Hotkey(q, Enter)

\* text.split on the newline character
RECURSIVE SplitLines(_, _)
SplitLines(s, cur) ==
  IF s = <<>> THEN <<cur>>
  ELSE IF Head(s) = "\n" THEN <<cur>> \o SplitLines(Tail(s), <<>>)
  ELSE SplitLines(Tail(s), Append(cur, Head(s)))

\* _bulk_type_text: each non-blank line typed, enter between the lines
RECURSIVE BulkLines(_, _, _)
BulkLines(q, lines, i) ==
  IF i > Len(lines) THEN <<>>
  ELSE (IF Strip(lines[i]) # <<>> THEN TypeText(q, lines[i]) ELSE <<>>)
       \o (IF i < Len(lines) THEN Hotkey(q, Enter) ELSE <<>>)
       \o BulkLines(q, lines, i + 1)

BulkTypeText(q, text) == BulkLines(q, SplitLines(text, <<>>), 1)

(***************************************************************************)
(* Numbers.  A Python float read from text is the exact decimal it spells, *)
(* [ok, num, den] with den a power of ten; not ok when float() raises.     *)
(***************************************************************************)
ValueError == [ok |-> FALSE]

Float(num, den) == [ok |-> TRUE, num |-> num, den |-> den]

RECURSIVE Pow10(_)
Pow10(n) == IF n = 0 THEN 1 ELSE 10 * Pow10(n - 1)

\* float(chars) for chars of digits and dots: at most one dot, a digit
ParseFloat(chars) ==
  LET dots == Len(SelectSeq(chars, LAMBDA c : c = "."))
      digs == SelectSeq(chars, LAMBDA c : c # ".")
      dot == IndexFrom(chars, 1, {"."})
  IN  IF dots > 1 \/ digs = <<>> THEN ValueError
      ELSE Float(ToNat(digs), IF dot = 0 THEN 1 ELSE Pow10(Len(chars) - dot))

\* float(value) of an environment variable: an optional sign, then a number
ParseSignedFloat(chars) ==
  IF chars # <<>> /\ Head(chars) = "-"
    THEN IF \A i \in 2..Len(chars) : chars[i] \in Digits \cup {"."}
           THEN IF ~ParseFloat(Tail(chars)).ok THEN ValueError
                ELSE Float(0 - ParseFloat(Tail(chars)).num,
                           ParseFloat(Tail(chars)).den)
           ELSE ValueError
    ELSE IF \A i \in 1..Len(chars) : chars[i] \in Digits \cup {"."}
           THEN ParseFloat(chars)
           ELSE ValueError

\* max(0.0, min(1.0, r)) of a ratio that is not negative
\* a variant that leaves a ratio as it is
NoClamp(r) == r

Clamp01(r) ==
  IF r.num > r.den THEN Float(1, 1) ELSE IF r.num < 0 THEN Float(0, 1) ELSE r

\* int(v) of the rational a / b, b > 0: towards zero
Trunc(a, b) == IF a >= 0 THEN a \div b ELSE 0 - ((0 - a) \div b)

\* round(a / b) for a >= 0, b > 0: half to even
RoundHalfEven(a, b) ==
  LET q == a \div b
      r == a % b
  IN  IF 2 * r < b THEN q
      ELSE IF 2 * r > b THEN q + 1
      ELSE IF q % 2 = 0 THEN q ELSE q + 1

\* _extract_coords: the first "(a, b)" of digits and dots, both clamped:
\* [tag, x, y] with tag "none" without a match, "error" when float() raises
RECURSIVE ExtractCoordsFrom(_, _)
ExtractCoordsFrom(text, i) ==
  IF i > Len(text) THEN [tag |-> "none"]
  ELSE
    LET numset == Digits \cup {"."}
        n == RunLen(text, i + 1, numset)
        c == i + n + 1
        w == RunLen(text, c + 1, {" "})
        m == RunLen(text, c + w + 1, numset)
        e == c + w + m + 1
    IN  IF /\ text[i] = "(" /\ n >= 1 /\ c <= Len(text) /\ text[c] = ","
           /\ m >= 1 /\ e <= Len(text) /\ text[e] = ")"
          THEN LET x == ParseFloat(SubSeq(text, i + 1, i + n))
                   y == ParseFloat(SubSeq(text, c + w + 1, e - 1))
               IN  IF ~x.ok \/ ~y.ok THEN [tag |-> "error"]
                   ELSE [tag |-> "ok", x |-> Clamp01(x), y |-> Clamp01(y)]
          ELSE ExtractCoordsFrom(text, i + 1)

ExtractCoords(text) == ExtractCoordsFrom(text, 1)

(***************************************************************************)
(* The coordinate mapper and the calibration offsets (harvey.py 39-88,     *)
(* 191-198).                                                               *)
(***************************************************************************)
\* the logical size of the main display that CGDisplayBounds reports
LogicalWidth == 121
LogicalHeight == 81

\* the size get_screen_info returns without Quartz
FallbackWidth == 1920
FallbackHeight == 1080

\* get_screen_info: the logical width and height, and the scale pixels /
\* logical_width of a display mode that is pixels wide
GetScreenInfo(q, pixels) ==
  IF q THEN [w |-> LogicalWidth, h |-> LogicalHeight,
             scale |-> Float(pixels, LogicalWidth)]
  ELSE [w |-> FallbackWidth, h |-> FallbackHeight, scale |-> Float(1, 1)]

\* a variant that converts to physical pixels: the points times the scale
TransformToPixels(g, rx, ry) ==
  [x |-> RoundHalfEven(Clamp01(rx).num * (g.w - 1) * g.scale.num,
                       Clamp01(rx).den * g.scale.den),
   y |-> RoundHalfEven(Clamp01(ry).num * (g.h - 1) * g.scale.num,
                       Clamp01(ry).den * g.scale.den)]

\* a variant that flips the vertical axis
TransformFlipped(g, rx, ry) ==
  [x |-> RoundHalfEven(Clamp01(rx).num * (g.w - 1), Clamp01(rx).den),
   y |-> (g.h - 1) - RoundHalfEven(Clamp01(ry).num * (g.h - 1), Clamp01(ry).den)]

\* _transform_coords on the screen that get_screen_info returned as g
TransformOn(g, rx, ry) ==
  LET cx == Clamp01(rx)
      cy == Clamp01(ry)
  IN  [x |-> RoundHalfEven(cx.num * (g.w - 1), cx.den),
       y |-> RoundHalfEven(cy.num * (g.h - 1), cy.den)]

\* _transform_coords on a display whose mode has one pixel per point
TransformCoords(q, rx, ry) == TransformOn(GetScreenInfo(q, LogicalWidth), rx, ry)

\* float(os.getenv(name, "0")): env is [set, text], the variable's text
EnvFloat(env) == IF env.set THEN ParseSignedFloat(env.text) ELSE Float(0, 1)

\* a variant that gives up only the offset that fails to parse
CalibratePartially(off, p) ==
  LET ox == EnvFloat(off.x)
      oy == EnvFloat(off.y)
  IN  [x |-> IF ox.ok THEN Trunc(p.x * ox.den + ox.num, ox.den) ELSE p.x,
       y |-> IF oy.ok THEN Trunc(p.y * oy.den + oy.num, oy.den) ELSE p.y]

\* calibrate_click_position: both offsets are zero when either fails to parse
CalibrateClickPosition(off, p) ==
  LET ox == EnvFloat(off.x)
      oy == EnvFloat(off.y)
  IN  IF ~ox.ok \/ ~oy.ok THEN p
      ELSE [x |-> Trunc(p.x * ox.den + ox.num, ox.den),
            y |-> Trunc(p.y * oy.den + oy.num, oy.den)]

(***************************************************************************)
(* The motion controller (harvey.py 141-169).                              *)
(***************************************************************************)
\* if distance < 5: return
MinMoveDistance == 5
\* steps = max(10, int(distance / 15))
MinMoveSteps == 10
MoveStepLength == 15

MoveEvent(x, y) == [type |-> "move", x |-> x, y |-> y]

\* int(sqrt(d2) / 15): the largest k with (15 k)^2 <= d2
RECURSIVE StepsFor(_, _)
StepsFor(d2, k) ==
  IF (MoveStepLength * (k + 1)) * (MoveStepLength * (k + 1)) <= d2
    THEN StepsFor(d2, k + 1) ELSE k

\* int(x0 + p / q) for an integer x0 and q > 0
TruncSum(x0, p, q) ==
  IF x0 + (p \div q) >= 0 THEN x0 + (p \div q)
  ELSE x0 + (0 - ((0 - p) \div q))

\* the point of step i of steps: the quadratic Bezier through the control
\* point, at the smoothstep t' = n / d of t = i / steps.  With a = d - n and
\* b = n the curve is p0 + (2ab (control - p0) + b^2 (p1 - p0)) / d^2, and
\* control - p0 is ((5 dx + dy) / 10, (5 dy - dx) / 10).
BezierPoint(p0, p1, i, steps) ==
  LET d == steps * steps * steps
      n == i * i * (3 * steps - 2 * i)
      a == d - n
      dx == p1.x - p0.x
      dy == p1.y - p0.y
  IN  MoveEvent(
        TruncSum(p0.x, 2 * a * n * (5 * dx + dy) + 10 * n * n * dx, 10 * d * d),
        TruncSum(p0.y, 2 * a * n * (5 * dy - dx) + 10 * n * n * dy, 10 * d * d))

(***************************************************************************)
(* The mouse trail (harvey.py 33-37, 90-107).  A point of the trail is its *)
(* position and its opacity, a rational; its size, scaled by 0.95 wherever *)
(* the opacity is scaled, is read by nothing and is left out.              *)
(***************************************************************************)
\* _MAX_TRAIL_POINTS = 15
MaxTrailPoints == 15
\* _TRAIL_FADE_SPEED = 0.8
TrailFadeSpeed == [num |-> 4, den |-> 5]
\* p['opacity'] > 0.1
MinOpacity == [num |-> 1, den |-> 10]

FullOpacity == [num |-> 1, den |-> 1]

RECURSIVE Gcd(_, _)
Gcd(a, b) == IF b = 0 THEN a ELSE Gcd(b, a % b)

\* a < b for two rationals of positive denominators, compared over the
\* least common denominator
Fainter(a, b) ==
  LET g == Gcd(a.den, b.den)
  IN  a.num * (b.den \div g) < b.num * (a.den \div g)

Faded(point) ==
  [point EXCEPT !.opacity = [num |-> point.opacity.num * TrailFadeSpeed.num,
                             den |-> point.opacity.den * TrailFadeSpeed.den]]

\* a variant that fades the newest point with the others
AddTrailPointFadingAll(enabled, points, p) ==
  IF ~enabled THEN points
  ELSE LET appended == Append(points, [x |-> p.x, y |-> p.y, opacity |-> FullOpacity])
           visible == SelectSeq(appended, LAMBDA q : Fainter(MinOpacity, q.opacity))
           n == Len(visible)
           kept == IF n > MaxTrailPoints
                     THEN SubSeq(visible, n - MaxTrailPoints + 1, n) ELSE visible
       IN  [j \in 1..Len(kept) |-> Faded(kept[j])]

\* _add_trail_point(x, y), where enabled is _MOUSE_TRAIL_ENABLED and
\* _QUARTZ_AVAILABLE: append at full opacity, drop the points of opacity
\* 0.1 or less, keep the last 15, fade all but the newest
AddTrailPoint(enabled, points, p) ==
  IF ~enabled THEN points
  ELSE LET appended == Append(points, [x |-> p.x, y |-> p.y, opacity |-> FullOpacity])
           visible == SelectSeq(appended, LAMBDA q : Fainter(MinOpacity, q.opacity))
           n == Len(visible)
           kept == IF n > MaxTrailPoints
                     THEN SubSeq(visible, n - MaxTrailPoints + 1, n) ELSE visible
       IN  [j \in 1..Len(kept) |->
             IF j < Len(kept) THEN Faded(kept[j]) ELSE kept[j]]

\* the trail after one call of _add_trail_point per event, in order
RECURSIVE AddTrailPoints(_, _, _)
AddTrailPoints(enabled, points, moves) ==
  IF moves = <<>> THEN points
  ELSE AddTrailPoints(enabled, AddTrailPoint(enabled, points, Head(moves)), Tail(moves))

TrailAppend(e) == [type |-> "trail", x |-> e.x, y |-> e.y]

\* a variant that appends to the trail after posting the event
MoveTraceAppendingAfter(enabled, moves) ==
  IF ~enabled THEN moves
  ELSE [k \in 1..(2 * Len(moves)) |->
         IF k % 2 = 0 THEN TrailAppend(moves[k \div 2]) ELSE moves[(k + 1) \div 2]]

\* what one call of smooth_move_mouse does, in order: in each step
\* _add_trail_point(x, y), then CGEventPost of the move to (x, y)
MoveTrace(enabled, moves) ==
  IF ~enabled THEN moves
  ELSE [k \in 1..(2 * Len(moves)) |->
         IF k % 2 = 1 THEN TrailAppend(moves[(k + 1) \div 2]) ELSE moves[k \div 2]]

\* a variant that stops one step early: range(steps)
SmoothMoveShort(p0, p1) ==
  LET dx == p1.x - p0.x
      dy == p1.y - p0.y
      d2 == dx * dx + dy * dy
      k == StepsFor(d2, 0)
      steps == IF k > MinMoveSteps THEN k ELSE MinMoveSteps
  IN  IF d2 < MinMoveDistance * MinMoveDistance THEN <<>>
      ELSE [j \in 1..steps |-> BezierPoint(p0, p1, j - 1, steps)]

\* smooth_move_mouse with Quartz: one move event per i in 0..steps
SmoothMoveMouse(p0, p1) ==
  LET dx == p1.x - p0.x
      dy == p1.y - p0.y
      d2 == dx * dx + dy * dy
      k == StepsFor(d2, 0)
      steps == IF k > MinMoveSteps THEN k ELSE MinMoveSteps
  IN  IF d2 < MinMoveDistance * MinMoveDistance THEN <<>>
      ELSE [j \in 1..(steps + 1) |-> BezierPoint(p0, p1, j - 1, steps)]

(***************************************************************************)
(* The pointer primitives (harvey.py 171-176, 276-382).  env is what the   *)
(* operating system answers during one call: whether Spotlight is          *)
(* frontmost, and where CGEventGetLocation finds the pointer before the    *)
(* move (start: a corner or the target itself), after it (the target plus  *)
(* drift) and before the button events (the target plus clickDrift).       *)
(***************************************************************************)
\* abs(final_x - x) > 5
ClickTolerance == 5
\* abs(final_x - x) > 2
DoubleClickTolerance == 2

MouseDown(p) == [type |-> "mouse_down", x |-> p.x, y |-> p.y]
MouseUp(p) == [type |-> "mouse_up", x |-> p.x, y |-> p.y]

Abs(n) == IF n < 0 THEN 0 - n ELSE n

\* a corner of the screen
Corner == [x |-> 10, y |-> 10]

StartOf(env, target) == IF env.start = "target" THEN target ELSE Corner

Shifted(target, d) == [x |-> target.x + d[1], y |-> target.y + d[2]]

Drifted(p, target, tol) == Abs(p.x - target.x) > tol \/ Abs(p.y - target.y) > tol

\* move_mouse
MoveMouse(q, rx, ry, env) ==
  IF ~q THEN <<>>
  ELSE LET target == TransformCoords(q, rx, ry)
       IN  SmoothMoveMouse(StartOf(env, target), target)

\* a variant that corrects again while the pointer is found off the target
UltraPreciseClickRetrying(q, off, rx, ry, env) ==
  IF ~q THEN <<>>
  ELSE IF env.spotlight THEN Hotkey(q, <<"return">>)
  ELSE
    LET target == CalibrateClickPosition(off, TransformCoords(q, rx, ry))
        final == Shifted(target, env.drift)
        click == Shifted(target, env.clickDrift)
    IN  SmoothMoveMouse(StartOf(env, target), target)
        \o (IF Drifted(final, target, ClickTolerance)
              THEN SmoothMoveMouse(final, target)
                   \o (IF Drifted(click, target, ClickTolerance)
                         THEN SmoothMoveMouse(click, target) ELSE <<>>)
              ELSE <<>>)
        \o <<MouseDown(click), MouseUp(click)>>

\* ultra_precise_click, which left_click calls
UltraPreciseClick(q, off, rx, ry, env) ==
  IF ~q THEN <<>>
  ELSE IF env.spotlight THEN Hotkey(q, <<"return">>)
  ELSE
    LET target == CalibrateClickPosition(off, TransformCoords(q, rx, ry))
        final == Shifted(target, env.drift)
        click == Shifted(target, env.clickDrift)
    IN  SmoothMoveMouse(StartOf(env, target), target)
        \o (IF Drifted(final, target, ClickTolerance)
              THEN SmoothMoveMouse(final, target) ELSE <<>>)
        \o <<MouseDown(click), MouseUp(click)>>

\* a variant that presses twice before it releases
DoubleClickHolding(q, off, rx, ry, env) ==
  IF ~q THEN <<>>
  ELSE
    LET target == CalibrateClickPosition(off, TransformCoords(q, rx, ry))
        final == Shifted(target, env.drift)
    IN  SmoothMoveMouse(StartOf(env, target), target)
        \o (IF Drifted(final, target, DoubleClickTolerance)
              THEN SmoothMoveMouse(final, target) ELSE <<>>)
        \o <<MouseDown(target), MouseDown(target), MouseUp(target), MouseUp(target)>>

\* double_click
DoubleClick(q, off, rx, ry, env) ==
  IF ~q THEN <<>>
  ELSE
    LET target == CalibrateClickPosition(off, TransformCoords(q, rx, ry))
        final == Shifted(target, env.drift)
    IN  SmoothMoveMouse(StartOf(env, target), target)
        \o (IF Drifted(final, target, DoubleClickTolerance)
              THEN SmoothMoveMouse(final, target) ELSE <<>>)
        \o <<MouseDown(target), MouseUp(target), MouseDown(target), MouseUp(target)>>

\* hover
Hover(q, rx, ry, env) ==
  IF ~q THEN <<>>
  ELSE LET target == TransformCoords(q, rx, ry)
       IN  SmoothMoveMouse(StartOf(env, target), target)

(***************************************************************************)
(* Harvey.execute (harvey.py 666-766): the events posted, the value        *)
(* returned, and the operation invoked with its argument (named "none"     *)
(* when the line invokes none).  An exception of the body is caught by the *)
(* handler of execute, which returns False.  env.fault is the kind of      *)
(* event the operating system refuses to create or post during the call.   *)
(***************************************************************************)
Result(events, isDone, op) == [events |-> events, done |-> isDone, op |-> op]

Op(name, arg) == [name |-> name, arg |-> arg]

NoArg == <<>>

\* a variant that ends the task on a line that invokes nothing
NoOpDone == Result(<<>>, TRUE, Op("none", NoArg))

NoOp == Result(<<>>, FALSE, Op("none", NoArg))

\* a variant that takes the pair of a line in the other order
SwappedBranch(name, coords, events) ==
  IF coords.tag # "ok" THEN Result(<<>>, FALSE, Op("none", NoArg))
  ELSE Result(events, FALSE, Op(name, [tag |-> "ok", x |-> coords.y, y |-> coords.x]))

\* one of the four branches that take a coordinate pair: the primitive is
\* called, with events as its effect, when _extract_coords returns a pair
PointerBranch(name, coords, events) ==
  IF coords.tag # "ok" THEN NoOp
  ELSE Result(events, FALSE, Op(name, coords))

\* one of the branches that take a quoted text: the operation is called,
\* with events as its effect, when the text is there and not empty
TextBranch(name, arg, events) ==
  IF ~arg.found \/ arg.text = <<>> THEN NoOp
  ELSE Result(events, FALSE, Op(name, arg.text))

\* a variant that runs nothing and never reports the task done
ExecuteNothing(q, off, text, env) ==
  [events |-> <<>>, done |-> FALSE, op |-> Op("none", NoArg), fault |-> "none",
   escaped |-> FALSE]

\* the try block of execute when every injection succeeds
ExecuteBody(q, off, text, env) ==
  LET arg == ExtractText(text)
      coords == ExtractCoords(text)
  IN
  IF StartsWith(text, "open_app")
    THEN TextBranch("open_app", arg, OpenAppWorkflow(q, arg.text))
  ELSE IF StartsWith(text, "web_search")
    THEN TextBranch("web_search", arg, WebSearchWorkflow(q, arg.text))
  ELSE IF StartsWith(text, "move_mouse")
    THEN PointerBranch("move_mouse", coords, MoveMouse(q, coords.x, coords.y, env))
  ELSE IF StartsWith(text, "left_click")
    THEN PointerBranch("left_click", coords,
                       UltraPreciseClick(q, off, coords.x, coords.y, env))
  ELSE IF StartsWith(text, "double_click")
    THEN PointerBranch("double_click", coords,
                       DoubleClick(q, off, coords.x, coords.y, env))
  ELSE IF StartsWith(text, "hover")
    THEN PointerBranch("hover", coords, Hover(q, coords.x, coords.y, env))
  ELSE IF StartsWith(text, "bulk_type")
    THEN TextBranch("bulk_type", arg, BulkTypeText(q, arg.text))
  ELSE IF StartsWith(text, "type_text")
    THEN TextBranch("type_text", arg, TypeText(q, arg.text))
  ELSE IF StartsWith(text, "scroll")
    THEN TextBranch("scroll", arg, Scroll(q, arg.text))
  ELSE IF StartsWith(text, "hotkey")
    THEN TextBranch("hotkey", arg, Hotkey(q, arg.text))
  ELSE IF StartsWith(text, "wait")
    THEN IF ExtractNumber(text) = NoNumber \/ ExtractNumber(text) = 0 THEN NoOp
         ELSE Result(<<>>, FALSE, Op("wait", ExtractNumber(text)))
  ELSE IF StartsWith(text, "focus_address_bar")
    THEN Result(Hotkey(q, CmdL), FALSE, Op("focus_address_bar", NoArg))
  ELSE IF StartsWith(text, "done")
    THEN Result(<<>>, TRUE, Op("done", NoArg))
  ELSE NoOp

\* the kinds of event an injection failure refuses
Faults == {"move", "button", "key", "scroll"}

\* the types of the events of a kind
FaultTypes(fault) ==
  CASE fault = "move" -> {"move"}
    [] fault = "button" -> {"mouse_down", "mouse_up"}
    [] fault = "key" -> {"key_down", "key_up"}
    [] fault = "scroll" -> {"scroll"}
    [] OTHER -> {}

\* whether the call tries to inject an event of the refused kind
Failed(evs, fault) == \E i \in 1..Len(evs) : evs[i].type \in FaultTypes(fault)

\* whether the failure leaves its primitive: smooth_move_mouse has no handler
\* of its own, and no caller of it has one around the call
Raised(evs, fault) == fault = "move" /\ Failed(evs, fault)

\* the first index of evs with an event of the refused kind
RECURSIVE FirstFailure(_, _, _)
FirstFailure(evs, fault, i) ==
  IF i > Len(evs) \/ evs[i].type \in FaultTypes(fault) THEN i
  ELSE FirstFailure(evs, fault, i + 1)

\* the events that are posted.  The handlers of the click, of the double
\* click, of a typed character, of hotkey and of scroll end that injection
\* and let the caller go on; a move that fails ends the whole call.
Posted(evs, fault) ==
  IF Raised(evs, fault) THEN SubSeq(evs, 1, FirstFailure(evs, fault, 1) - 1)
  ELSE SelectSeq(evs, LAMBDA e : e.type \notin FaultTypes(fault))

\* a variant of the handler of execute that lets the exception go on
Propagates(evs, fault) == Raised(evs, fault)

\* the handler of execute catches every Exception of the body
Escapes(evs, fault) == FALSE

\* what execute makes of the result r of its body when injections of the
\* kind fault fail: the events posted, the value returned, the operation
\* invoked, the kind of injection that did fail, and whether the exception
\* leaves execute
Handled(r, fault) ==
  [events |-> Posted(r.events, fault),
   done |-> r.done /\ ~Raised(r.events, fault),
   op |-> r.op,
   fault |-> IF Failed(r.events, fault) THEN fault ELSE "none",
   escaped |-> Escapes(r.events, fault)]

Execute(q, off, text, env) ==
  CHOOSE h \in { Handled(r, env.fault) : r \in {ExecuteBody(q, off, text, env)} } : TRUE

(***************************************************************************)
(* Harvey._speak_rationale (harvey.py 807-899): whether tts_speak is       *)
(* called.  enabled is the HARVEY_TTS setting read at the call.            *)
(***************************************************************************)
\* the commands _speak_rationale has a sentence for
SpokenCommands ==
  {"hotkey", "bulk_type", "type_text", "left_click", "double_click", "hover",
   "scroll", "wait", "done"}

\* a float() error of _extract_coords ends the narration of a click silently
SpeakRationale(tts, enabled, text) ==
  /\ tts
  /\ enabled
  /\ text # <<>>
  /\ \E cmd \in SpokenCommands : StartsWith(Strip(text), cmd)
  /\ ~(StartsWith(Strip(text), "left_click")
        /\ ExtractCoords(Strip(text)).tag = "error")

(***************************************************************************)
(* The inputs: tasks, action lines, replies and errors of the reasoning    *)
(* collaborator, and what the operating system answers a pointer           *)
(* primitive.                                                              *)
(***************************************************************************)
Quoted(chars) == <<"\"">> \o chars \o <<"\"">>

Call(name, args) == <<name, "(">> \o args \o <<")">>

SettingsTask == <<"open", " ", "system", " ", "settings">>
SafariSearchTask == <<"Search", " ", "cats", " ", "in", " ", "Safari">>
SearchOnlyTask == <<"search", " ", "cats">>
BrowserOnlyTask == <<"open", " ", "the", " ", "browser">>
ResearchTask == <<"research", " ", "browsers">>

Tasks == {SettingsTask, SafariSearchTask, SearchOnlyTask, BrowserOnlyTask, ResearchTask}

LoopTasks == {SettingsTask, SafariSearchTask}

SystemSettings ==
  <<"S", "y", "s", "t", "e", "m", " ", "S", "e", "t", "t", "i", "n", "g", "s">>

OpenSettings == Call("open_app", Quoted(SystemSettings))
WebSearchCats == Call("web_search", Quoted(<<"c", "a", "t", "s">>))
MoveTo == Call("move_mouse", <<"0", ".", "2", ",", " ", "0", ".", "8">>)
ClickAt == Call("left_click", <<"0", ".", "4", "5", ",", " ", "0", ".", "1", "2">>)
ClickOutside == Call("left_click", <<"1", ".", "5", ",", "0", ".", "5">>)
ClickBadFloat == Call("left_click", <<"0", ".", "4", ".", "5", ",", " ", "0", ".", "1">>)
DoubleClickAt == Call("double_click", <<"0", ".", "5", ",", " ", "0", ".", "5">>)
HoverAt == Call("hover", <<"0", ".", "9", ",", " ", "0", ".", "1">>)
TypeHi == Call("type_text", Quoted(<<"H", "i", "(", "!">>))
TypeUnbalanced == <<"type_text", "(", "\"", "H", "i", ")">>
BulkAb == Call("bulk_type", Quoted(<<"a", "\\", "n", "b">>))
ScrollDown == Call("scroll", Quoted(<<"down">>))
HotkeySpotlight == Call("hotkey", Quoted(CmdSpace))
WaitMs == Call("wait", <<"1", "5", "0", "0">>)
FocusBar == Call("focus_address_bar", <<>>)
UnknownLine == Call("click", <<"0", ".", "5", ",", " ", "0", ".", "5">>)
BoldClick == <<"**">> \o ClickAt \o <<"**">>
TickedDone == <<BackTick>> \o DoneAction \o <<BackTick>>

\* an action line of every command, and lines that are no command
LoopActions ==
  { OpenSettings, WebSearchCats, MoveTo, ClickAt, ClickOutside, ClickBadFloat,
    DoubleClickAt, HoverAt, TypeHi, TypeUnbalanced, BulkAb, ScrollDown,
    HotkeySpotlight, WaitMs, FocusBar, DoneAction, UnknownLine, BoldClick,
    TickedDone }

SeeLine == <<"See:", " ", "Desktop">>
ThinkLine == <<"Think:", " ", "next">>
BoldSeeLine == <<"**See:**", " ", "Desktop">>
BoldThinkLine == <<"**Think:**">>
ProseLine == <<"Sorry">>
EmptyActionLine == <<"Action:">>

ActionLine(a) == <<"Action:", " ">> \o a
BoldActionLine(a) == <<"**Action:**", " ">> \o a

TextReply(lines) == [kind |-> "text", lines |-> lines]
ErrorReply(msg) == [kind |-> "error", msg |-> msg]
NoTextReply == [kind |-> "notext"]

\* the two replies of the end-to-end scenario
OpenSettingsReply == TextReply(<<SeeLine, ThinkLine, ActionLine(OpenSettings)>>)
DoneReply == TextReply(<<ActionLine(DoneAction)>>)

RetryIn35 == <<"Please ", "retry in ", "3", ".", "5", "s">>
HugeNumber == [i \in 1..(Len(SleepLimit) + 1) |-> "9"]

RateLimit35 == <<"429", " ", "RESOURCE_EXHAUSTED", " ">> \o RetryIn35
RateLimitBare == <<"RESOURCE_EXHAUSTED">>
RateLimitHuge == <<"429", " ", "Please ", "retry in ">> \o HugeNumber \o <<"s">>
ServerError == <<"500", " ", "Internal">>
ServerErrorRetry == <<"500", " ">> \o RetryIn35

\* the outcomes of generate_content in the loop specification
LoopOutcomes ==
       { TextReply(<<ActionLine(a)>>) : a \in LoopActions }
  \cup { OpenSettingsReply,
         TextReply(<<BoldSeeLine, BoldThinkLine, BoldActionLine(DoneAction)>>),
         TextReply(<<ActionLine(DoneAction), ActionLine(ClickAt)>>),
         TextReply(<<SeeLine, DoneAction>>),
         TextReply(<<ProseLine, DoneAction>>),
         TextReply(<<ProseLine>>),
         TextReply(<<EmptyActionLine, ActionLine(DoneAction)>>) }
  \cup { ErrorReply(m) : m \in { RateLimit35, RateLimitBare, RateLimitHuge,
                                 ServerError, ServerErrorRetry } }
  \cup { NoTextReply }

\* the values of HARVEY_X_OFFSET and HARVEY_Y_OFFSET
Unset == [set |-> FALSE, text |-> <<>>]
SetTo(text) == [set |-> TRUE, text |-> text]

OffsetEnvs == { [x |-> Unset, y |-> Unset], [x |-> SetTo(<<"3">>), y |-> SetTo(<<"-", "2">>)] }

\* where the pointer is found before a move: a corner, or the target itself
StartPoints == { "corner", "target" }

\* how far from the target the pointer is found after a move
Drifts == { <<0, 0>>, <<3, 0>>, <<8, 0>> }

PointerEnvs ==
  [spotlight : BOOLEAN, start : StartPoints, drift : Drifts, clickDrift : Drifts,
   fault : {"none"}]

\* the answers when the pointer rests on the target and Spotlight is closed
StillEnv ==
  [spotlight |-> FALSE, start |-> "target", drift |-> <<0, 0>>,
   clickDrift |-> <<0, 0>>, fault |-> "none"]

\* the answers when an injection fails: the pointer starts in a corner and
\* arrives on the target
FaultEnvs ==
  [spotlight : BOOLEAN, start : {"corner"}, drift : {<<0, 0>>},
   clickDrift : {<<0, 0>>}, fault : Faults]

\* only the pointer primitives ask the operating system: the answers that
\* matter to the line execute is given
EnvsFor(text) ==
  IF \E c \in {"move_mouse", "left_click", "double_click", "hover"} : StartsWith(text, c)
    THEN PointerEnvs \cup { e \in FaultEnvs : e.fault \in {"move", "button", "key"} }
    ELSE {StillEnv} \cup
         { e \in FaultEnvs : ~e.spotlight /\ e.fault \in {"key", "scroll"} }

(***************************************************************************)
(* The state.                                                              *)
(***************************************************************************)
VARIABLES
  quartz,       \* _QUARTZ_AVAILABLE
  tts,          \* "absent" (no TTS module), "disabled" (HARVEY_TTS=0), "on"
  offsets,      \* the environment's HARVEY_X_OFFSET / HARVEY_Y_OFFSET
  task,         \* the task of run(task)
  pc,           \* where the loop of run stands
  step,         \* the loop variable of run
  outcome,      \* "running", "Done", "capture-failed", "step-limit", or an error
  lastSee,      \* self.last_see
  screenshot,   \* screenshot_data of this iteration
  response,     \* what generate_content did in this iteration
  action,       \* what think returned in this iteration
  slept,        \* the argument of think's time.sleep in this iteration
  inferCalls,   \* the calls of generate_content in this iteration
  narrated,     \* whether tts_speak was called in this iteration
  voice,        \* what tts_speak did in this iteration
  fault,        \* the kind of injection that failed in this iteration
  done,         \* what execute returned in this iteration
  op,           \* the operation execute invoked in this iteration
  events,       \* the input events posted in this iteration
  captures,     \* the calls of capture_to_bytes in this run
  plans,        \* the calls of think in this run
  script,       \* the replies a scripted collaborator was given
  openAppExecs, \* recorder: the open_app workflows run
  otherExecs,   \* recorder: the other operations run, done apart
  ratio,        \* mapper: the ratio pair given to _transform_coords
  pixels,       \* mapper: the pixel width of the display mode
  device,       \* mapper: the point _transform_coords returned
  display,      \* mapper: whether the display answers the queries of get_screen_info
  envFile,      \* store: the file .env
  saved,        \* store: the call of _write_env_offsets and what it returned
  loaded,       \* store: the offsets a new process applies
  calib,        \* store: where calibrate_interactive stands, and what it holds
  asked,        \* what the operating system answered in this iteration
  segment,      \* motion: the two ends given to smooth_move_mouse
  trailEnabled, \* motion: _MOUSE_TRAIL_ENABLED, whether HARVEY_MOUSE_TRAIL is on
  trailPoints,  \* motion: _TRAIL_POINTS, oldest first
  argv,         \* process: sys.argv without the program name
  apiKeys,      \* process: the environment's GOOGLE_API_KEY / GEMINI_API_KEY
  exitCode      \* process: the argument of sys.exit, or that main returned

world == <<quartz, tts, offsets, task>>
iteration ==
  <<screenshot, response, action, slept, inferCalls, narrated, voice, fault, asked,
    done, op, events>>
recorder == <<script, openAppExecs, otherExecs>>
loop == <<world, pc, step, outcome, lastSee, iteration, captures, plans, recorder>>
mapper == <<ratio, pixels, device, display>>
store == <<envFile, saved, loaded, calib>>
motion == <<segment, trailEnabled, trailPoints>>
process == <<argv, apiKeys, exitCode>>
vars == <<loop, mapper, store, motion, process>>

(***************************************************************************)
(* More inputs: the scripts of a scripted collaborator, and the replies    *)
(* and errors Harvey.think is applied to on its own.                       *)
(***************************************************************************)
\* longest script of a scripted collaborator, in replies
MaxScript == 3

\* the sequences over S of at most n elements
SeqsUpTo(S, n) == UNION { [1..k -> S] : k \in 0..n }

ScriptReplies ==
  { OpenSettingsReply, DoneReply, TextReply(<<ActionLine(ClickAt)>>),
    ErrorReply(RateLimit35) }

Scripts == SeqsUpTo(ScriptReplies, MaxScript)

\* what a scripted collaborator does once its script is used up: it raises
\* an error without a message
ScriptExhausted == ErrorReply(<<>>)

\* the start of an error message: an HTTP status or an error name
ErrorPrefixes == { <<"429", " ">>, <<"RESOURCE_EXHAUSTED", " ">>, <<"500", " ">> }

\* the words before a duration
PleaseRetryIn == <<"Please ", "retry in ">>
RetryIn == <<"retry in ">>
DurationPhrases == { PleaseRetryIn, RetryIn }

\* what follows the number of a duration
DurationUnits == { <<"s">>, <<"seconds">>, <<" ", "s">>, <<>> }

\* the spellings of a number: digits and dots, well formed or not, a number
\* beyond the range of the clock, and the number 429
NumberSpellings ==
  UNION { [1..k -> {"0", "3", "5", "9", "."}] : k \in 1..MaxNumLen }
    \cup {HugeNumber, <<"4", "2", "9">>}

ErrorMessage(prefix, phrase, number, unit) == prefix \o phrase \o number \o unit

PlanErrors ==
       { ErrorReply(ErrorMessage(p, ph, n, u)) :
           p \in ErrorPrefixes, ph \in DurationPhrases, n \in NumberSpellings,
           u \in DurationUnits }
  \cup { ErrorReply(p) : p \in ErrorPrefixes }
  \cup { ErrorReply(<<>>), NoTextReply }

\* lines without a command
PlainLines == { SeeLine, ThinkLine, BoldSeeLine, BoldThinkLine, ProseLine, <<>>, <<" ">> }

PlanLines ==
  PlainLines \cup
  { EmptyActionLine, ActionLine(DoneAction), ActionLine(TickedDone),
    BoldActionLine(ClickAt), DoneAction, WebSearchCats }

PlanReplies == { TextReply(l) : l \in SeqsUpTo(PlanLines, MaxReplyLines) }

PlanOutcomes == PlanErrors \cup PlanReplies

(***************************************************************************)
(* Harvey.run (harvey.py 931-975).  An iteration of the for loop takes     *)
(* four steps: capture, think, narrate, execute.  What an iteration        *)
(* observes is kept until the next capture.                                *)
(***************************************************************************)
NoResponse == [kind |-> "none"]

\* a variant that records the outcome and goes on with the loop
FinishAndGoOn(o) == pc' = "capture" /\ outcome' = o

\* the loop is left: by break, by exhaustion of range(20), or by an
\* exception that nothing in run catches
Finish(o) == pc' = "finished" /\ outcome' = o

\* the mapper and the store before any call of them
NoRatio == [tag |-> "none"]
NoPoint == [tag |-> "none"]
MapperIdle ==
  ratio = NoRatio /\ pixels = LogicalWidth /\ device = NoPoint /\ display = "answers"

NoFile == [exists |-> FALSE, lines |-> <<>>]
NotSaved == [status |-> "none"]
NotLoaded == [status |-> "none"]
Origin == [x |-> 0, y |-> 0]
CalibIdle == [at |-> "idle", expected |-> Origin, off |-> Origin, pointer |-> Origin,
              answer |-> <<>>]
StoreIdle ==
  envFile = NoFile /\ saved = NotSaved /\ loaded = NotLoaded /\ calib = CalibIdle

\* the operating system was not asked
NotAsked ==
  [spotlight |-> FALSE, start |-> "none", drift |-> <<0, 0>>, clickDrift |-> <<0, 0>>,
   fault |-> "none"]

NoSegment == [tag |-> "none"]
\* outside the motion controller the program is taken with
\* HARVEY_MOUSE_TRAIL=0, where _add_trail_point returns at once
MotionIdle == segment = NoSegment /\ trailEnabled = FALSE /\ trailPoints = <<>>

\* main has not ended
NoExit == [tag |-> "none"]
\* main went on to Harvey().run(task) with a credential in the environment
Started ==
  /\ argv = <<task>>
  /\ apiKeys = [google |-> SetTo(<<"k">>), gemini |-> Unset]
  /\ exitCode = NoExit

Init ==
  /\ quartz \in BOOLEAN
  /\ tts \in {"absent", "disabled", "on"}
  /\ offsets \in OffsetEnvs
  /\ task \in LoopTasks
  /\ pc = "capture"
  /\ step = 0
  /\ outcome = "running"
  /\ lastSee = <<>>
  /\ screenshot = FALSE
  /\ response = NoResponse
  /\ action = <<>>
  /\ slept = NoSleep
  /\ inferCalls = 0
  /\ narrated = FALSE
  /\ voice = "none"
  /\ fault = "none"
  /\ asked = NotAsked
  /\ done = FALSE
  /\ op = Op("none", NoArg)
  /\ events = <<>>
  /\ captures = 0
  /\ plans = 0
  /\ script = <<>>
  /\ openAppExecs = 0
  /\ otherExecs = 0
  /\ MapperIdle
  /\ StoreIdle
  /\ MotionIdle
  /\ Started

\* a variant that goes on to think whatever capture_to_bytes returned
CaptureUnchecked(shot, writable) ==
  /\ pc = "capture"
  /\ captures' = captures + 1
  /\ screenshot' = shot
  /\ response' = NoResponse
  /\ action' = <<>>
  /\ slept' = NoSleep
  /\ inferCalls' = 0
  /\ narrated' = FALSE
  /\ voice' = "none"
  /\ fault' = "none"
  /\ asked' = NotAsked
  /\ done' = FALSE
  /\ op' = Op("none", NoArg)
  /\ events' = <<>>
  /\ pc' = "think"
  /\ UNCHANGED <<world, step, outcome, lastSee, plans, recorder, mapper, store, motion,
                 process>>

\* capture_to_bytes, the debug file of the first iteration, and the test of
\* screenshot_data.  shot: capture_to_bytes returned data; writable:
\* harvey_debug.jpg can be opened for writing.
Capture(shot, writable) ==
  /\ pc = "capture"
  /\ captures' = captures + 1
  /\ screenshot' = shot
  /\ response' = NoResponse
  /\ action' = <<>>
  /\ slept' = NoSleep
  /\ inferCalls' = 0
  /\ narrated' = FALSE
  /\ voice' = "none"
  /\ fault' = "none"
  /\ asked' = NotAsked
  /\ done' = FALSE
  /\ op' = Op("none", NoArg)
  /\ events' = <<>>
  /\ IF ~shot THEN Finish("capture-failed")
     ELSE IF step = 0 /\ ~writable THEN Finish("OSError")
     ELSE pc' = "think" /\ UNCHANGED outcome
  /\ UNCHANGED <<world, step, lastSee, plans, recorder, mapper, store, motion,
                 process>>

\* action = self.think(task, screenshot_data), r what generate_content does
ThinkStep(r) ==
  /\ pc = "think"
  /\ LET t == Think(task, r, lastSee) IN
       /\ plans' = plans + 1
       /\ response' = r
       /\ inferCalls' = t.infers
       /\ slept' = t.sleep
       /\ action' = t.action
       /\ lastSee' = t.see
       /\ IF t.raised THEN Finish("OverflowError")
          ELSE pc' = "speak" /\ UNCHANGED outcome
  /\ UNCHANGED <<world, step, screenshot, narrated, voice, fault, asked, done, op,
                 events, captures, recorder, mapper, store, motion,
                 process>>

\* what tts_speak does when it is called: it returns the path of an audio
\* file, returns None, or raises
Voices == {"audio", "null", "raises"}

\* a variant without the handlers of _speak_rationale: an error of tts_speak
\* leaves run
SpeakUnguarded(v) ==
  /\ pc = "speak"
  /\ narrated' = SpeakRationale(tts # "absent", tts = "on", action)
  /\ voice' = IF narrated' THEN v ELSE "none"
  /\ IF narrated' /\ v = "raises" THEN Finish("TTSError")
     ELSE pc' = "execute" /\ UNCHANGED outcome
  /\ UNCHANGED <<world, step, lastSee, screenshot, response, action,
                 slept, inferCalls, fault, asked, done, op, events, captures, plans,
                 recorder, mapper, store, motion,
                 process>>

\* self._speak_rationale(action, self.last_see, task), v what tts_speak does
\* if it is called
Speak(v) ==
  /\ pc = "speak"
  /\ narrated' = SpeakRationale(tts # "absent", tts = "on", action)
  /\ voice' = IF narrated' THEN v ELSE "none"
  /\ pc' = "execute"
  /\ UNCHANGED <<world, step, outcome, lastSee, screenshot, response, action,
                 slept, inferCalls, fault, asked, done, op, events, captures, plans,
                 recorder, mapper, store, motion,
                 process>>

\* the operations a recorder around execute counts
Recorded(o, recording) ==
  IF recording
    THEN /\ openAppExecs' = openAppExecs + (IF o.name = "open_app" THEN 1 ELSE 0)
         /\ otherExecs' =
              otherExecs + (IF o.name \in {"open_app", "done", "none"} THEN 0 ELSE 1)
         /\ UNCHANGED script
    ELSE UNCHANGED recorder

\* done = self.execute(action), the test of done, and the loop's next step
ExecuteStep(env, recording) ==
  /\ pc = "execute"
  /\ \E r \in {Execute(quartz, offsets, action, env)} :
       /\ events' = r.events
       /\ fault' = r.fault
       /\ asked' = env
       /\ op' = r.op
       /\ done' = r.done
       /\ Recorded(r.op, recording)
       /\ IF r.escaped THEN Finish("InjectionError") /\ UNCHANGED step
          ELSE IF r.done THEN Finish("Done") /\ UNCHANGED step
          ELSE /\ step' = step + 1
               /\ IF step + 1 = MaxSteps THEN Finish("step-limit")
                  ELSE pc' = "capture" /\ UNCHANGED outcome
  /\ UNCHANGED <<world, lastSee, screenshot, response, action, slept,
                 inferCalls, narrated, voice, captures, plans, mapper, store, motion,
                 process>>

(***************************************************************************)
(* The loop with a free environment.                                       *)
(***************************************************************************)
CaptureAny ==
  pc = "capture" /\ \E shot \in BOOLEAN, writable \in BOOLEAN : Capture(shot, writable)

ThinkAny == pc = "think" /\ \E r \in LoopOutcomes : ThinkStep(r)

ExecuteAny == pc = "execute" /\ \E env \in EnvsFor(action) : ExecuteStep(env, FALSE)

SpeakAny == pc = "speak" /\ \E v \in Voices : Speak(v)

Next == CaptureAny \/ ThinkAny \/ SpeakAny \/ ExecuteAny

Spec == Init /\ [][Next]_vars

(***************************************************************************)
(* The loop against a scripted collaborator, with captures that succeed,   *)
(* a writable directory and a recorder around execute.                     *)
(***************************************************************************)
InitE2E ==
  /\ quartz \in BOOLEAN
  /\ tts \in {"absent", "disabled", "on"}
  /\ offsets \in OffsetEnvs
  /\ task = SettingsTask
  /\ pc = "capture"
  /\ step = 0
  /\ outcome = "running"
  /\ lastSee = <<>>
  /\ screenshot = FALSE
  /\ response = NoResponse
  /\ action = <<>>
  /\ slept = NoSleep
  /\ inferCalls = 0
  /\ narrated = FALSE
  /\ voice = "none"
  /\ fault = "none"
  /\ asked = NotAsked
  /\ done = FALSE
  /\ op = Op("none", NoArg)
  /\ events = <<>>
  /\ captures = 0
  /\ plans = 0
  /\ script \in Scripts
  /\ openAppExecs = 0
  /\ otherExecs = 0
  /\ MapperIdle
  /\ StoreIdle
  /\ MotionIdle
  /\ Started

CaptureOk == Capture(TRUE, TRUE)

\* the reply of a scripted collaborator to its call number plans + 1
ScriptedReply == IF plans < Len(script) THEN script[plans + 1] ELSE ScriptExhausted

ThinkScripted == ThinkStep(ScriptedReply)

ExecuteRecorded == pc = "execute" /\ \E env \in EnvsFor(action) : ExecuteStep(env, TRUE)

NextE2E == CaptureOk \/ ThinkScripted \/ SpeakAny \/ ExecuteRecorded

SpecE2E == InitE2E /\ [][NextE2E]_vars

(***************************************************************************)
(* Harvey.think on its own: one call, on any task and any outcome of       *)
(* generate_content.                                                       *)
(***************************************************************************)
InitPlan ==
  /\ quartz = TRUE
  /\ tts = "on"
  /\ offsets = [x |-> Unset, y |-> Unset]
  /\ task \in Tasks
  /\ pc = "think"
  /\ step = 0
  /\ outcome = "running"
  /\ lastSee = <<>>
  /\ screenshot = TRUE
  /\ response = NoResponse
  /\ action = <<>>
  /\ slept = NoSleep
  /\ inferCalls = 0
  /\ narrated = FALSE
  /\ voice = "none"
  /\ fault = "none"
  /\ asked = NotAsked
  /\ done = FALSE
  /\ op = Op("none", NoArg)
  /\ events = <<>>
  /\ captures = 1
  /\ plans = 0
  /\ script = <<>>
  /\ openAppExecs = 0
  /\ otherExecs = 0
  /\ MapperIdle
  /\ StoreIdle
  /\ MotionIdle
  /\ Started

ThinkPlan == pc = "think" /\ \E r \in PlanOutcomes : ThinkStep(r)

NextPlan == ThinkPlan

SpecPlan == InitPlan /\ [][NextPlan]_vars

(***************************************************************************)
(* Harvey.execute on its own: one call, on a well-formed line of each      *)
(* command, on lines with an odd number of quotes, and on lines that are   *)
(* no command.                                                             *)
(***************************************************************************)
\* a representative line of each of the thirteen commands
WellFormedLines ==
  { OpenSettings, WebSearchCats, MoveTo, ClickAt, DoubleClickAt, HoverAt, TypeHi,
    BulkAb, ScrollDown, HotkeySpotlight, WaitMs, FocusBar, DoneAction }

DoubleQuote == "\""

\* a command name, an opening parenthesis, and a quoted text that is not closed
OpenQuoteLine(name) == <<name, "(", DoubleQuote, "x">>

\* lines with an odd number of quotes: a quote that is not closed after each
\* command name, a stray quote after each well-formed line, and a quote
\* inside a quoted text
UnbalancedLines ==
       { OpenQuoteLine(c) :
           c \in {"open_app", "web_search", "move_mouse", "left_click",
                  "double_click", "hover", "bulk_type", "type_text", "scroll",
                  "hotkey", "wait", "focus_address_bar", "done"} }
  \cup { l \o <<DoubleQuote>> : l \in WellFormedLines }
  \cup { Call("type_text", <<DoubleQuote, "H", DoubleQuote, "i", DoubleQuote>>),
         TypeUnbalanced }

\* more texts to type: characters without a key between characters with one
TypeLines ==
  { Call("type_text", Quoted(<<"a", "+", "B", " ", "1", "?", "Z">>)),
    Call("type_text", Quoted(<<"(", "x", "=", "Y", "~">>)),
    Call("type_text", Quoted(<<"!", "?">>)) }

ExecLines ==
  WellFormedLines \cup UnbalancedLines \cup TypeLines
    \cup {UnknownLine, ClickOutside, ClickBadFloat}

InitExec ==
  /\ quartz \in BOOLEAN
  /\ tts = "on"
  /\ offsets \in OffsetEnvs
  /\ task = SettingsTask
  /\ pc = "execute"
  /\ step = 0
  /\ outcome = "running"
  /\ lastSee = <<>>
  /\ screenshot = TRUE
  /\ response = NoResponse
  /\ action \in ExecLines
  /\ slept = NoSleep
  /\ inferCalls = 1
  /\ narrated = FALSE
  /\ voice = "none"
  /\ fault = "none"
  /\ asked = NotAsked
  /\ done = FALSE
  /\ op = Op("none", NoArg)
  /\ events = <<>>
  /\ captures = 1
  /\ plans = 1
  /\ script = <<>>
  /\ openAppExecs = 0
  /\ otherExecs = 0
  /\ MapperIdle
  /\ StoreIdle
  /\ MotionIdle
  /\ Started

ExecuteLine == pc = "execute" /\ \E env \in EnvsFor(action) : ExecuteStep(env, FALSE)

NextExec == ExecuteLine

SpecExec == InitExec /\ [][NextExec]_vars

(***************************************************************************)
(* The coordinate mapper on its own (harvey.py 39-88, 901-915): a ratio    *)
(* pair is given to _transform_coords as it is, or is first extracted from *)
(* an action line by _extract_coords.                                      *)
(***************************************************************************)
\* the ratios n / 4 from -1 to 2
RatioGrid == { Float(n, 4) : n \in (0 - 4)..8 }

RatioPairs == { [tag |-> "ok", x |-> rx, y |-> ry] : rx \in RatioGrid, ry \in RatioGrid }

\* the pixel widths of the display modes: one, one and a half, and two
\* pixels per point
PixelWidths == { LogicalWidth, (3 * LogicalWidth) \div 2, 2 * LogicalWidth }

\* lines with a pair inside and outside the range of a ratio
PairLines ==
  { ClickAt, ClickOutside, DoubleClickAt,
    Call("move_mouse", <<"2", ",", " ", "0">>),
    Call("hover", <<"0", ".", "5", ",", " ", "1", ".", "2", "5">>),
    Call("left_click", <<"-", "0", ".", "5", ",", " ", "0", ".", "5">>) }

\* the loop variables while the loop does not run
LoopIdle ==
  /\ tts = "on"
  /\ offsets = [x |-> Unset, y |-> Unset]
  /\ task = SettingsTask
  /\ pc = "idle"
  /\ step = 0
  /\ outcome = "running"
  /\ lastSee = <<>>
  /\ screenshot = FALSE
  /\ response = NoResponse
  /\ slept = NoSleep
  /\ inferCalls = 0
  /\ narrated = FALSE
  /\ voice = "none"
  /\ fault = "none"
  /\ asked = NotAsked
  /\ done = FALSE
  /\ op = Op("none", NoArg)
  /\ events = <<>>
  /\ captures = 0
  /\ plans = 0
  /\ script = <<>>
  /\ openAppExecs = 0
  /\ otherExecs = 0

\* action is the line the pair comes from, empty when the pair is given to
\* the mapper as it is
InitMap ==
  /\ quartz \in BOOLEAN
  /\ pixels \in PixelWidths
  /\ \/ action = <<>> /\ ratio \in RatioPairs
     \/ action \in PairLines /\ ratio = NoRatio
  /\ device = NoPoint
  /\ display \in {"answers", "fails"}
  /\ LoopIdle
  /\ StoreIdle
  /\ MotionIdle
  /\ Started

\* coords = self._extract_coords(text)
Extract ==
  /\ action # <<>>
  /\ ratio = NoRatio
  /\ ExtractCoords(action).tag = "ok"
  /\ ratio' = ExtractCoords(action)
  /\ UNCHANGED <<loop, pixels, device, display, store, motion, process>>

\* x, y = _transform_coords(x_ratio, y_ratio).  Nothing catches what a
\* query of get_screen_info raises: with Quartz and a display that fails
\* no point is returned, and display becomes "raised"
Convert ==
  /\ ratio # NoRatio
  /\ device = NoPoint
  /\ display # "raised"
  /\ IF quartz /\ display = "fails"
       THEN display' = "raised" /\ UNCHANGED device
       ELSE /\ LET p == TransformOn(GetScreenInfo(quartz, pixels), ratio.x, ratio.y)
               IN  device' = [tag |-> "ok", x |-> p.x, y |-> p.y]
            /\ UNCHANGED display
  /\ UNCHANGED <<loop, ratio, pixels, store, motion, process>>

NextMap == Extract \/ Convert

SpecMap == InitMap /\ [][NextMap]_vars

(***************************************************************************)
(* The calibration store (harvey.py 191-227, 977-980): _write_env_offsets  *)
(* rewrites the file .env, and a new process reads it with load_dotenv     *)
(* before calibrate_click_position reads the two variables.  A line of the *)
(* file is a sequence of lexemes: a key, the equals sign, and the          *)
(* characters of the value.                                                *)
(***************************************************************************)
XOffsetKey == "HARVEY_X_OFFSET"
YOffsetKey == "HARVEY_Y_OFFSET"

DigitChars == <<"0", "1", "2", "3", "4", "5", "6", "7", "8", "9">>

\* str(n) for n >= 0
RECURSIVE NatToStr(_)
NatToStr(n) ==
  IF n < 10 THEN <<DigitChars[n + 1]>>
  ELSE NatToStr(n \div 10) \o <<DigitChars[(n % 10) + 1]>>

\* str(int(n))
IntToStr(n) == IF n < 0 THEN <<"-">> \o NatToStr(0 - n) ELSE NatToStr(n)

\* line.strip().startswith(key + "=")
StartsWithKey(line, key) ==
  Len(Strip(line)) >= 2 /\ Strip(line)[1] = key /\ Strip(line)[2] = "="

\* the first index from i of a line that starts with the key, 0 without one
RECURSIVE FirstWithKey(_, _, _)
FirstWithKey(lines, key, i) ==
  IF i > Len(lines) THEN 0
  ELSE IF StartsWithKey(lines[i], key) THEN i
  ELSE FirstWithKey(lines, key, i + 1)

\* a variant that appends the entry whether the key has a line or not
SetByAppending(lines, key, value) == Append(lines, <<key, "=">> \o value)

\* set_or_replace: the first line of the key is replaced, and the loop
\* breaks; without such a line one is appended
SetOrReplace(lines, key, value) ==
  IF FirstWithKey(lines, key, 1) = 0 THEN Append(lines, <<key, "=">> \o value)
  ELSE [lines EXCEPT ![FirstWithKey(lines, key, 1)] = <<key, "=">> \o value]

\* a line boundary of str.splitlines that is not the newline: a form feed
FormFeed == "<FF>"

\* the pieces of a line of the file between its form feeds
RECURSIVE SplitAtBoundaries(_)
SplitAtBoundaries(line) ==
  IF \A i \in 1..Len(line) : line[i] # FormFeed THEN <<line>>
  ELSE LET i == CHOOSE k \in 1..Len(line) :
                  line[k] = FormFeed /\ \A j \in 1..(k - 1) : line[j] # FormFeed
       IN  <<SubSeq(line, 1, i - 1)>> \o SplitAtBoundaries(SubSeq(line, i + 1, Len(line)))

\* read_text().splitlines(): the lines of the file, each split at every
\* boundary splitlines knows
RECURSIVE SplitFileLines(_)
SplitFileLines(lines) ==
  IF lines = <<>> THEN <<>>
  ELSE SplitAtBoundaries(Head(lines)) \o SplitFileLines(Tail(lines))

\* the file _write_env_offsets writes: the lines joined with newlines
WriteEnvOffsets(file, dx, dy) ==
  [exists |-> TRUE,
   lines |-> SetOrReplace(
               SetOrReplace(IF file.exists THEN SplitFileLines(file.lines) ELSE <<>>,
                            XOffsetKey, IntToStr(dx)),
               YOffsetKey, IntToStr(dy))]

\* the last index down from i of a line that binds the key, 0 without one
RECURSIVE LastWithKey(_, _, _)
LastWithKey(lines, key, i) ==
  IF i = 0 THEN 0
  ELSE IF StartsWithKey(lines[i], key) THEN i
  ELSE LastWithKey(lines, key, i - 1)

\* load_dotenv() in a process that has not the variable yet: the value of
\* the last line of the file that binds the key
DotenvValue(file, key) ==
  IF ~file.exists \/ LastWithKey(file.lines, key, Len(file.lines)) = 0 THEN Unset
  ELSE LET l == Strip(file.lines[LastWithKey(file.lines, key, Len(file.lines))])
       IN  SetTo(Strip(SubSeq(l, 3, Len(l))))

\* the offsets a new process applies: calibrate_click_position on the
\* origin, after load_dotenv
LoadOffsets(file) ==
  CalibrateClickPosition(
    [x |-> DotenvValue(file, XOffsetKey), y |-> DotenvValue(file, YOffsetKey)],
    [x |-> 0, y |-> 0])

\* most lines of a file .env
MaxFileLines == 3

\* lines of a file: another key, an offset of an earlier calibration for
\* each key, a comment, an empty line
OtherLine == <<"GOOGLE_API_KEY", "=", "k">>
OldXLine == <<XOffsetKey, "=", "7">>
OldYLine == <<" ", YOffsetKey, "=", "-", "7">>
CommentLine == <<"#", " ", "offsets">>
FormFeedLine == <<"NOTE", "=", "a", FormFeed, "b">>
BadXLine == <<XOffsetKey, "=", "1", ".", "2", ".", "3">>

FileLines ==
  { OtherLine, OldXLine, OldYLine, CommentLine, FormFeedLine, BadXLine, <<>> }

EnvFiles ==
  {NoFile} \cup { [exists |-> TRUE, lines |-> l] : l \in SeqsUpTo(FileLines, MaxFileLines) }

\* the offsets given to _write_env_offsets
SaveOffsets == { 0 - 12, 0, 3 }

InitStore ==
  /\ quartz = TRUE
  /\ LoopIdle
  /\ MapperIdle
  /\ action = <<>>
  /\ envFile \in EnvFiles
  /\ saved = NotSaved
  /\ loaded = NotLoaded
  /\ calib = CalibIdle
  /\ MotionIdle
  /\ Started

\* _write_env_offsets(dx, dy); writable: .env can be read and written
Save(dx, dy, writable) ==
  /\ saved = NotSaved
  /\ IF writable
       THEN /\ envFile' = WriteEnvOffsets(envFile, dx, dy)
            /\ saved' = [status |-> "ok", dx |-> dx, dy |-> dy]
       ELSE /\ saved' = [status |-> "failed", dx |-> dx, dy |-> dy]
            /\ UNCHANGED envFile
  /\ loaded' = NotLoaded
  /\ UNCHANGED <<loop, mapper, calib, motion, process>>

\* a new process: load_dotenv() of main, and the offsets
\* calibrate_click_position applies
Load ==
  /\ loaded = NotLoaded
  /\ loaded' = [status |-> "ok", x |-> LoadOffsets(envFile).x,
                y |-> LoadOffsets(envFile).y]
  /\ UNCHANGED <<loop, mapper, envFile, saved, calib, motion, process>>

SaveAny ==
  saved = NotSaved /\ \E dx \in SaveOffsets, dy \in SaveOffsets, writable \in BOOLEAN :
    Save(dx, dy, writable)

\* _write_env_offsets called once more with the offsets it has written
SaveAgain(writable) ==
  /\ saved.status = "ok"
  /\ IF writable
       THEN /\ envFile' = WriteEnvOffsets(envFile, saved.dx, saved.dy)
            /\ saved' = [saved EXCEPT !.status = "again"]
       ELSE /\ saved' = [saved EXCEPT !.status = "failed"]
            /\ UNCHANGED envFile
  /\ loaded' = NotLoaded
  /\ UNCHANGED <<loop, mapper, calib, motion, process>>

SaveAgainAny == saved.status = "ok" /\ \E writable \in BOOLEAN : SaveAgain(writable)

NextStore == SaveAny \/ SaveAgainAny \/ Load

SpecStore == InitStore /\ [][NextStore]_vars

(***************************************************************************)
(* smooth_move_mouse on its own (harvey.py 141-169): the two ends are      *)
(* given, and the events it posts are kept with them.                      *)
(***************************************************************************)
\* where a motion starts
FromPoints == { [x |-> 0, y |-> 0], [x |-> 60, y |-> 40], [x |-> 119, y |-> 79] }

\* how far from its start a motion ends, on each axis
Spans == { 0 - 40, 0 - 5, 0 - 4, 0 - 3, 0, 3, 4, 5, 100, 120 }

Segments ==
  { [tag |-> "given", from |-> p, to |-> Shifted(p, <<dx, dy>>),
     events |-> <<>>, trace |-> <<>>] :
      p \in FromPoints, dx \in Spans, dy \in Spans }

InitMove ==
  /\ quartz \in BOOLEAN
  /\ LoopIdle
  /\ MapperIdle
  /\ StoreIdle
  /\ Started
  /\ action = <<>>
  /\ segment \in Segments
  /\ trailEnabled \in BOOLEAN
  /\ trailPoints = <<>>

\* smooth_move_mouse(start_x, start_y, end_x, end_y): events are the moves
\* it posts, trace the moves and the trail appends in the order made
Move ==
  /\ segment.tag = "given"
  /\ \E moves \in {IF ~quartz THEN <<>> ELSE SmoothMoveMouse(segment.from, segment.to)} :
       /\ segment' = [segment EXCEPT !.tag = "moved",
                                     !.events = moves,
                                     !.trace = MoveTrace(trailEnabled, moves)]
       /\ trailPoints' = AddTrailPoints(trailEnabled, trailPoints, moves)
  /\ UNCHANGED <<loop, mapper, store, process, trailEnabled>>

\* where the pointer is: where the last move event left it
Pointer ==
  IF segment.events = <<>> THEN segment.from
  ELSE [x |-> segment.events[Len(segment.events)].x,
        y |-> segment.events[Len(segment.events)].y]

\* get_current_mouse_position(): with Quartz the position asked of the
\* operating system is appended to the trail
GetCurrentMousePosition ==
  /\ segment.tag \in {"given", "moved"}
  /\ trailPoints' = AddTrailPoint(quartz /\ trailEnabled, trailPoints, Pointer)
  /\ UNCHANGED <<loop, mapper, store, process, segment, trailEnabled>>

NextMove == Move \/ GetCurrentMousePosition

SpecMove == InitMove /\ [][NextMove]_vars

(***************************************************************************)
(* The calibration dialogue (harvey.py 235-274).  calibrate_interactive    *)
(* waits for the operator at three calls of input: whether the pointer is  *)
(* centered, the Enter that captures the corrected position, and whether   *)
(* to save.  calib.at is where it stands, or how it ended: "no-quartz",    *)
(* "centered", "saved", "save-failed", "declined", or "aborted" when an    *)
(* exception left it.                                                      *)
(***************************************************************************)
\* resp == "y" after input(...).strip().lower()
IsYes(resp) == Lower(Strip(resp)) = <<"y">>

\* a variant that writes the store whatever the operator answers
SaveAlways(confirm) == TRUE

\* if confirm == "y": the preview is confirmed
SaveDecision(confirm) == IsYes(confirm)

\* where the pointer is after smooth_move_mouse(from, to)
Reached(from, to) == IF SmoothMoveMouse(from, to) = <<>> THEN from ELSE to

\* what the operator types at a prompt
YesAnswers == { <<"y">>, <<"Y">>, <<" ", "y", " ">> }
NoAnswers == { <<>>, <<"n">>, <<"y", "e", "s">>, <<"o", "k">> }
Answers == YesAnswers \cup NoAnswers

\* how far from the computed center the operator leaves the pointer
Nudges == { <<0, 0>>, <<3, 0 - 2>>, <<0 - 12, 7>> }

\* the files the dialogue starts with
CalibFiles == { NoFile, [exists |-> TRUE, lines |-> <<OtherLine, OldXLine>>] }

InitCalib ==
  /\ quartz \in BOOLEAN
  /\ LoopIdle
  /\ MapperIdle
  /\ MotionIdle
  /\ Started
  /\ action = <<>>
  /\ envFile \in CalibFiles
  /\ saved = NotSaved
  /\ loaded = NotLoaded
  /\ calib \in { [CalibIdle EXCEPT !.at = "start", !.pointer = p] :
                   p \in {Corner, [x |-> LogicalWidth \div 2, y |-> LogicalHeight \div 2]} }

\* to the first prompt: the check of Quartz and the move to the computed
\* center; moved: the move events could be posted
CalibrateStart(moved) ==
  /\ calib.at = "start"
  /\ IF ~quartz THEN calib' = [calib EXCEPT !.at = "no-quartz"]
     ELSE IF ~moved THEN calib' = [calib EXCEPT !.at = "aborted"]
     ELSE \E c \in {TransformCoords(quartz, Float(1, 2), Float(1, 2))} :
            calib' = [calib EXCEPT !.at = "centered?", !.expected = c,
                                   !.pointer = Reached(calib.pointer, c)]
  /\ UNCHANGED <<loop, mapper, envFile, saved, loaded, motion, process>>

\* the answer to "Is the cursor exactly at the screen center?"
AnswerCentered(resp) ==
  /\ calib.at = "centered?"
  /\ calib' = [calib EXCEPT !.at = IF IsYes(resp) THEN "centered" ELSE "reposition",
                            !.answer = resp]
  /\ UNCHANGED <<loop, mapper, envFile, saved, loaded, motion, process>>

\* the Enter after the operator moved the pointer by nudge: the offsets
\* are computed and the preview is shown
CaptureCenter(nudge, moved) ==
  /\ calib.at = "reposition"
  /\ \E final \in {Shifted(calib.expected, nudge)} :
     \E off \in {[x |-> final.x - calib.expected.x, y |-> final.y - calib.expected.y]} :
       IF ~moved THEN calib' = [calib EXCEPT !.at = "aborted", !.off = off,
                                             !.pointer = final]
       ELSE calib' = [calib EXCEPT !.at = "save?", !.off = off,
                                   !.pointer = Reached(final, Shifted(calib.expected,
                                                                     <<off.x, off.y>>))]
  /\ UNCHANGED <<loop, mapper, envFile, saved, loaded, motion, process>>

\* the answer to "Save to .env?"; writable: .env can be read and written
AnswerSave(confirm, writable) ==
  /\ calib.at = "save?"
  /\ IF SaveDecision(confirm)
       THEN IF writable
              THEN /\ envFile' = WriteEnvOffsets(envFile, calib.off.x, calib.off.y)
                   /\ saved' = [status |-> "ok", dx |-> calib.off.x, dy |-> calib.off.y]
                   /\ calib' = [calib EXCEPT !.at = "saved", !.answer = confirm]
              ELSE /\ saved' = [status |-> "failed", dx |-> calib.off.x,
                                dy |-> calib.off.y]
                   /\ calib' = [calib EXCEPT !.at = "save-failed", !.answer = confirm]
                   /\ UNCHANGED envFile
       ELSE /\ calib' = [calib EXCEPT !.at = "declined", !.answer = confirm]
            /\ UNCHANGED <<envFile, saved>>
  /\ UNCHANGED <<loop, mapper, loaded, motion, process>>

\* input raises at a prompt: the end of the input, or an interrupt
Interrupt ==
  /\ calib.at \in {"centered?", "reposition", "save?"}
  /\ calib' = [calib EXCEPT !.at = "aborted"]
  /\ UNCHANGED <<loop, mapper, envFile, saved, loaded, motion, process>>

CalibrateStartAny == calib.at = "start" /\ \E moved \in BOOLEAN : CalibrateStart(moved)

AnswerCenteredAny == calib.at = "centered?" /\ \E resp \in Answers : AnswerCentered(resp)

CaptureCenterAny ==
  calib.at = "reposition" /\ \E nudge \in Nudges, moved \in BOOLEAN :
    CaptureCenter(nudge, moved)

AnswerSaveAny ==
  calib.at = "save?" /\ \E confirm \in Answers, writable \in BOOLEAN :
    AnswerSave(confirm, writable)

NextCalib ==
  CalibrateStartAny \/ AnswerCenteredAny \/ CaptureCenterAny \/ AnswerSaveAny
    \/ Interrupt

SpecCalib == InitCalib /\ [][NextCalib]_vars

(***************************************************************************)
(* main (harvey.py 977-1004): the arguments and the credentials are        *)
(* tested before Harvey().run(task), and calibrate_interactive is the      *)
(* other way on.                                                           *)
(***************************************************************************)
GoogleKey == "GOOGLE_API_KEY"
GeminiKey == "GEMINI_API_KEY"

\* os.getenv(key) after load_dotenv(): the variable of the environment, and
\* the value the file binds only when the environment has not the variable
Getenv(env, file, key) == IF env.set THEN env ELSE DotenvValue(file, key)

\* not os.getenv(key)
Missing(v) == ~v.set \/ v.text = <<>>

\* a variant that goes on without a credential
CredentialsAssumed(keys, file) == TRUE

\* os.getenv("GOOGLE_API_KEY") or os.getenv("GEMINI_API_KEY")
HasCredentials(keys, file) ==
  ~Missing(Getenv(keys.google, file, GoogleKey))
    \/ ~Missing(Getenv(keys.gemini, file, GeminiKey))

\* arg1 in ("--calibrate", "calibrate")
CalibrateArgs == { <<"--calibrate">>, <<"calibrate">> }

Exit(code, printed) == [tag |-> "exit", code |-> code, printed |-> printed]

\* the command lines, the environments and the files main is started with
ArgLists ==
  { <<>>, <<SettingsTask>>, <<<<" ">> \o SettingsTask>>, <<<<"--calibrate">>>>,
    <<<<"calibrate", " ">>>> }

KeyEnvs ==
  { [google |-> Unset, gemini |-> Unset],
    [google |-> SetTo(<<>>), gemini |-> Unset],
    [google |-> SetTo(<<"k">>), gemini |-> Unset],
    [google |-> Unset, gemini |-> SetTo(<<"k">>)] }

CliFiles == { NoFile, [exists |-> TRUE, lines |-> <<CommentLine, OtherLine>>] }

InitCli ==
  /\ quartz = TRUE
  /\ tts = "on"
  /\ offsets = [x |-> Unset, y |-> Unset]
  /\ task = <<>>
  /\ pc = "main"
  /\ step = 0
  /\ outcome = "running"
  /\ lastSee = <<>>
  /\ screenshot = FALSE
  /\ response = NoResponse
  /\ action = <<>>
  /\ slept = NoSleep
  /\ inferCalls = 0
  /\ narrated = FALSE
  /\ voice = "none"
  /\ fault = "none"
  /\ asked = NotAsked
  /\ done = FALSE
  /\ op = Op("none", NoArg)
  /\ events = <<>>
  /\ captures = 0
  /\ plans = 0
  /\ script = <<>>
  /\ openAppExecs = 0
  /\ otherExecs = 0
  /\ MapperIdle
  /\ MotionIdle
  /\ envFile \in CliFiles
  /\ saved = NotSaved
  /\ loaded = NotLoaded
  /\ calib = CalibIdle
  /\ argv \in ArgLists
  /\ apiKeys \in KeyEnvs
  /\ exitCode = NoExit

\* main up to Harvey().run(task) or calibrate_interactive()
Main ==
  /\ pc = "main"
  /\ IF Len(argv) < 1
       THEN /\ pc' = "exited"
            /\ exitCode' = Exit(1, "usage")
            /\ UNCHANGED <<task, calib>>
     ELSE IF Strip(argv[1]) \in CalibrateArgs
       THEN /\ pc' = "calibrate"
            /\ calib' = [CalibIdle EXCEPT !.at = "start", !.pointer = Corner]
            /\ UNCHANGED <<task, exitCode>>
     ELSE IF ~HasCredentials(apiKeys, envFile)
       THEN /\ pc' = "exited"
            /\ exitCode' = Exit(1, "no-key")
            /\ UNCHANGED <<task, calib>>
     ELSE /\ pc' = "capture"
          /\ task' = Strip(argv[1])
          /\ UNCHANGED <<calib, exitCode>>
  /\ UNCHANGED <<quartz, tts, offsets, step, outcome, lastSee, iteration, captures,
                 plans, recorder, mapper, envFile, saved, loaded, motion, argv,
                 apiKeys>>

\* main returns after run or calibrate_interactive, or an exception that
\* nothing catches ends the process
Return ==
  /\ \/ pc = "finished"
     \/ pc = "calibrate" /\ calib.at \notin {"start", "centered?", "reposition", "save?"}
  /\ pc' = "exited"
  /\ exitCode' =
       IF pc = "finished"
         THEN Exit(IF outcome \in {"Done", "capture-failed", "step-limit"} THEN 0 ELSE 1,
                   "none")
         ELSE Exit(IF calib.at = "aborted" THEN 1 ELSE 0, "none")
  /\ UNCHANGED <<world, step, outcome, lastSee, iteration, captures, plans, recorder,
                 mapper, store, motion, argv, apiKeys>>

NextCli == Main \/ Return \/ Next \/ NextCalib

SpecCli == InitCli /\ [][NextCli]_vars

(***************************************************************************)
(* Properties.  What they need beyond the program: the command names of    *)
(* the grammar, and a reading of an error message that is not the          *)
(* program's.                                                              *)
(***************************************************************************)
CommandNames ==
  {"open_app", "web_search", "move_mouse", "left_click", "double_click", "hover",
   "bulk_type", "type_text", "scroll", "hotkey", "wait", "focus_address_bar",
   "done"}

MatchesNoCommand(text) == ~\E c \in CommandNames : StartsWith(text, c)

\* execute has returned in this iteration
AfterExecute == pc \in {"capture", "finished"} /\ action # <<>>

\* think has returned in this iteration
AfterThink == response # NoResponse /\ outcome # "OverflowError"

\* C1: every run ends in Done, capture-failed or step-limit, after at most
\* 20 captures, and no iteration starts beyond the twentieth.
C1_RunEndsInTerminalState ==
  /\ captures <= MaxSteps
  /\ step <= MaxSteps
  /\ pc = "finished" => outcome \in {"Done", "capture-failed", "step-limit"}

\* C2: once the loop has reached a terminal state there is no further
\* capture, plan call, reasoning call, narration or input event.
C2_NothingAfterTerminal ==
  [][outcome # "running" =>
       /\ captures' = captures
       /\ plans' = plans
       /\ inferCalls' = inferCalls
       /\ narrated' = narrated
       /\ events' = events
       /\ outcome' = outcome]_vars

\* C2: a run has ended after input events were posted in its last iteration
C2_Witness == outcome = "step-limit" /\ events # <<>>

\* the capture of this iteration returned nothing
FailedCapture == captures > 0 /\ ~screenshot

\* C3: when capture returns nothing, at whatever iteration, the loop ends
\* there: think is not called, nothing is narrated or executed, and no
\* later iteration runs.
C3_CaptureFailureAborts ==
  /\ [](FailedCapture =>
          /\ pc = "finished"
          /\ outcome = "capture-failed"
          /\ plans = captures - 1
          /\ inferCalls = 0
          /\ response = NoResponse
          /\ ~narrated
          /\ op.name = "none"
          /\ events = <<>>)
  /\ [][FailedCapture => UNCHANGED <<captures, plans, step, op, events>>]_vars

\* C3: a capture after the first returned nothing
C3_Witness == FailedCapture /\ captures > 1 /\ pc = "finished"

\* C4: a line that starts with no command name is a step without effect:
\* execute posts no event, invokes nothing and returns not-done, the step
\* is counted, and the loop goes on to the next capture (to the step limit
\* when the step was the twentieth).
C4_UnknownLineIsNoOp ==
  (AfterExecute /\ MatchesNoCommand(action)) =>
    /\ events = <<>>
    /\ op.name = "none"
    /\ ~done
    /\ step = captures
    /\ step < MaxSteps => pc = "capture" /\ outcome = "running"
    /\ step = MaxSteps => pc = "finished" /\ outcome = "step-limit"

\* C4: the second iteration executed a line of an unknown command
C4_Witness == AfterExecute /\ action = UnknownLine /\ pc = "capture" /\ step = 2

\* the collaborator replies open_app("System Settings"), then done()
ScenarioScript ==
  Len(script) >= 2 /\ script[1] = OpenSettingsReply /\ script[2] = DoneReply

\* C5: with the replies open_app("System Settings") and then done(), the
\* run ends Done with exactly two captures and two plan calls, one open_app
\* workflow run and no other operation.
C5_EndToEnd ==
  ScenarioScript =>
    /\ captures <= 2
    /\ plans <= 2
    /\ openAppExecs <= 1
    /\ otherExecs = 0
    /\ pc = "finished" =>
         /\ outcome = "Done"
         /\ captures = 2
         /\ plans = 2
         /\ openAppExecs = 1

\* C5: the scenario has run to its end, a third reply left unused
C5_Witness == ScenarioScript /\ Len(script) = 3 /\ outcome = "Done" /\ openAppExecs = 1

\* the duration an error message carries after the words "retry in"
Carried(msg) ==
  LET k == IndexFrom(msg, 1, {"retry in "})
      n == RunLen(msg, k + 1, Digits \cup {"."})
  IN  IF k = 0 THEN [present |-> FALSE]
      ELSE [present |-> TRUE,
            please |-> k > 1 /\ msg[k - 1] = "Please ",
            number |-> SubSeq(msg, k + 1, k + n),
            unit |-> SubSeq(msg, k + n + 1, Len(msg))]

IntPart(n) ==
  IF IndexFrom(n, 1, {"."}) = 0 THEN n ELSE SubSeq(n, 1, IndexFrom(n, 1, {"."}) - 1)

FracPart(n) ==
  IF IndexFrom(n, 1, {"."}) = 0 THEN <<>>
  ELSE SubSeq(n, IndexFrom(n, 1, {"."}) + 1, Len(n))

\* digits, then possibly a dot and digits
WellSpelled(n) ==
  /\ IntPart(n) # <<>>
  /\ \A i \in 1..Len(FracPart(n)) : FracPart(n)[i] # "."

\* a duration in seconds: a well-spelled number, then a word that starts with s
IsDuration(d) ==
  /\ d.present
  /\ WellSpelled(d.number)
  /\ d.unit # <<>>
  /\ d.unit[1] \in {"s", "seconds"}

\* a number of seconds in units of 10^-(MaxNumLen + 1) seconds
Units(int, frac) ==
  ToNat(int) * Pow10(MaxNumLen + 1) + ToNat(frac) * Pow10(MaxNumLen + 1 - Len(frac))

\* think called time.sleep with one second more than the number spells
SleptOneMoreThan(n) ==
  /\ slept.sleeps
  /\ IF n = HugeNumber
       THEN slept = Sleep(<<"1">> \o [i \in 1..Len(n) |-> "0"], <<>>)
       ELSE Units(slept.int, slept.frac)
              = Units(IntPart(n), FracPart(n)) + Pow10(MaxNumLen + 1)

\* think called time.sleep(10)
SleptTen == slept.sleeps /\ Units(slept.int, slept.frac) = 10 * Pow10(MaxNumLen + 1)

\* the text of the error has 429 or RESOURCE_EXHAUSTED in it, anywhere
RateLimitSignal(msg) ==
  \E i \in 1..Len(msg) :
     \/ msg[i] \in {"429", "RESOURCE_EXHAUSTED"}
     \/ i + 2 <= Len(msg) /\ SubSeq(msg, i, i + 2) = <<"4", "2", "9">>

\* C6, as amended: on an error that names 429 or RESOURCE_EXHAUSTED, think
\* calls time.sleep with d + 1 seconds when the message reads
\* "Please retry in <d>s", and with 10 seconds when it does not; on any other
\* error it does not sleep, whatever duration the message carries.
C6_SleepAfterRateLimit ==
  response.kind = "error" =>
    LET d == Carried(response.msg) IN
    IF ~RateLimitSignal(response.msg) THEN slept = NoSleep
    ELSE IF IsDuration(d) /\ d.please THEN SleptOneMoreThan(d.number)
    ELSE SleptTen

\* C6, as claimed: on an error that carries a duration d after "retry in",
\* think sleeps d + 1 seconds; on a rate-limit error without a duration it
\* sleeps 10 seconds.
C6_SleepAsClaimed ==
  response.kind = "error" =>
    LET d == Carried(response.msg) IN
    /\ IsDuration(d) => SleptOneMoreThan(d.number)
    /\ RateLimitSignal(response.msg) /\ ~d.present => SleptTen

\* C6: think slept 4.5 seconds on "Please retry in 3.5s"
C6_Witness ==
  /\ response = ErrorReply(ErrorMessage(<<"429", " ">>, PleaseRetryIn,
                                         <<"3", ".", "5">>, <<"s">>))
  /\ slept = Sleep(<<"4">>, <<"5">>)
  /\ pc = "speak"

\* C7: a call of think calls generate_content once, after a rate-limit wait
\* too, and think is called once per capture.
C7_OneCallPerPlan ==
  /\ inferCalls <= 1
  /\ plans <= captures
  /\ captures <= plans + 1
  /\ AfterThink => inferCalls = 1 /\ plans = captures

\* C7: the second call of think waited for the rate limit and returned the
\* new-tab fallback
C7_Witness ==
  /\ slept.sleeps
  /\ action = NewTabAction
  /\ inferCalls = 1
  /\ plans = 2
  /\ pc = "execute"

\* the tasks that name a browser, and those that name a search
BrowserTasks == {SafariSearchTask, BrowserOnlyTask, ResearchTask}
SearchTasks == {SafariSearchTask, SearchOnlyTask, ResearchTask}

\* think has returned after a rate-limit wait
AfterRateLimitWait == slept.sleeps /\ pc = "speak"

\* C8, as amended: after a rate-limit wait think returns hotkey("cmd+t")
\* when the task names a browser and also names a search, and done()
\* otherwise; either is a line of a known command.
C8_FallbackAction ==
  AfterRateLimitWait =>
    /\ action = IF task \in BrowserTasks \cap SearchTasks
                  THEN NewTabAction ELSE DoneAction
    /\ ~MatchesNoCommand(action)

\* C8, as claimed: after a rate-limit wait think returns hotkey("cmd+t")
\* when the task names a browser or a search, and done() otherwise.
C8_FallbackAsClaimed ==
  AfterRateLimitWait =>
    /\ action = IF task \in BrowserTasks \cup SearchTasks
                  THEN NewTabAction ELSE DoneAction
    /\ ~MatchesNoCommand(action)

\* C8: a rate-limit wait on a task that names Safari and a search
C8_Witness ==
  AfterRateLimitWait /\ task = SafariSearchTask /\ action = NewTabAction

\* C9: on an error without a rate-limit signal think does not sleep and
\* returns done(), and the run ends Done in that iteration, without an
\* input event.
C9_OtherErrorEndsDone ==
  response \in {ErrorReply(ServerError), ErrorReply(ServerErrorRetry)} =>
    /\ slept = NoSleep
    /\ inferCalls = 1
    /\ action = DoneAction
    /\ pc \in {"speak", "execute", "finished"}
    /\ pc = "finished" =>
         /\ outcome = "Done"
         /\ done
         /\ events = <<>>
         /\ plans = captures

\* C9: the third reasoning call failed with a server error and the run
\* ended Done
C9_Witness ==
  response = ErrorReply(ServerErrorRetry) /\ outcome = "Done" /\ captures = 3

\* C10: think raises nothing: after its call it has returned a line, and
\* wait(1000) when the reply has no line with a command.
C10_ThinkNeverRaises ==
  plans > 0 =>
    /\ outcome # "OverflowError"
    /\ action # <<>>
    /\ (response.kind = "text"
         /\ \A i \in 1..Len(response.lines) : response.lines[i] \in PlainLines)
       => action = DefaultAction

\* C11: an injection failure during execute never leaves execute.  The
\* call returns not-done, the run does not end with an error, the step is
\* counted, no event of the refused kind is posted, and the loop goes on to
\* the next capture (or stops at the step limit) without a second call of
\* execute for the same plan.
C11_InjectionFailureIsCaught ==
  /\ outcome # "InjectionError"
  /\ fault # "none" =>
       /\ ~done
       /\ step = captures
       /\ plans = captures
       /\ \A i \in 1..Len(events) : events[i].type \notin FaultTypes(fault)
       /\ \/ pc = "capture" /\ outcome = "running"
          \/ pc = "finished" /\ outcome = "step-limit" /\ step = MaxSteps

\* C11: the first move of a left click failed in the first iteration; no
\* button event followed and the loop went on
C11_Witness ==
  /\ fault = "move"
  /\ op.name = "left_click"
  /\ events = <<>>
  /\ step = 1
  /\ pc = "capture"

\* C12, as claimed: a failure to write the debug screenshot of the first
\* iteration does not end the run: no run ends with the error of the write,
\* and a run whose first capture returned data has gone on to its first plan.
C12_DebugWriteFailureIgnored ==
  /\ outcome # "OSError"
  /\ (captures = 1 /\ screenshot /\ pc = "finished") => plans = 1

\* the variables narration must leave alone: all but narrated, voice and pc
control ==
  <<world, step, outcome, lastSee, screenshot, response, action, slept, inferCalls,
    fault, done, op, events, captures, plans, recorder>>

\* C13: narration does not influence control.  Whether the narration
\* collaborator is absent, disabled or present, and whether its call
\* returns audio, returns null or raises, the step of the loop that narrates
\* changes nothing but the record of the narration and always goes on to
\* execute the planned action; no run ends with a narration error.
C13_NarrationDoesNotInfluenceControl ==
  /\ [](outcome # "TTSError")
  /\ [][pc = "speak" => (pc' = "execute" /\ UNCHANGED control)]_vars

\* C13: the narration collaborator raised, and the planned left click was
\* executed all the same
C13_Witness ==
  /\ voice = "raises"
  /\ op.name = "left_click"
  /\ pc = "capture"
  /\ step = 1

\* the operation and argument each representative line stands for
ExpectedOp(line) ==
  CASE line = OpenSettings -> Op("open_app", SystemSettings)
    [] line = WebSearchCats -> Op("web_search", <<"c", "a", "t", "s">>)
    [] line = MoveTo ->
         Op("move_mouse", [tag |-> "ok", x |-> Float(2, 10), y |-> Float(8, 10)])
    [] line = ClickAt ->
         Op("left_click", [tag |-> "ok", x |-> Float(45, 100), y |-> Float(12, 100)])
    [] line = DoubleClickAt ->
         Op("double_click", [tag |-> "ok", x |-> Float(5, 10), y |-> Float(5, 10)])
    [] line = HoverAt ->
         Op("hover", [tag |-> "ok", x |-> Float(9, 10), y |-> Float(1, 10)])
    [] line = TypeHi -> Op("type_text", <<"H", "i", "(", "!">>)
    [] line = BulkAb -> Op("bulk_type", <<"a", "\\", "n", "b">>)
    [] line = ScrollDown -> Op("scroll", <<"down">>)
    [] line = HotkeySpotlight -> Op("hotkey", <<"cmd", "+", "space">>)
    [] line = WaitMs -> Op("wait", 1500)
    [] line = FocusBar -> Op("focus_address_bar", NoArg)
    [] line = DoneAction -> Op("done", NoArg)

\* the types of event an operation may post
EventTypesOf(name) ==
  CASE name \in {"move_mouse", "hover"} -> {"move"}
    [] name \in {"left_click", "double_click"} ->
         {"move", "mouse_down", "mouse_up", "key_down", "key_up"}
    [] name = "scroll" -> {"scroll"}
    [] name \in {"wait", "done", "none"} -> {}
    [] OTHER -> {"key_down", "key_up"}

\* C14: a well-formed line of each of the thirteen commands dispatches to
\* exactly the operation it names, with the field values parsed from the
\* line (left_click(0.45, 0.12), hotkey("cmd+space"), wait(1500), done() and
\* nine more); only events of that one operation are posted, and only done()
\* ends the task.
C14_WellFormedLineDispatches ==
  (AfterExecute /\ action \in WellFormedLines) =>
    /\ op.name = ExpectedOp(action).name
    /\ op.arg = ExpectedOp(action).arg
    /\ \A i \in 1..Len(events) : events[i].type \in EventTypesOf(op.name)
    /\ done <=> action = DoneAction

\* C14: left_click(0.45, 0.12) was executed as a left click at those ratios,
\* and its button events were posted
C14_Witness ==
  /\ AfterExecute
  /\ action = ClickAt
  /\ op = Op("left_click", [tag |-> "ok", x |-> Float(45, 100), y |-> Float(12, 100)])
  /\ \E i \in 1..Len(events) : events[i].type = "mouse_down"

\* the number of quotes of a line is odd
Unbalanced(line) == Len(SelectSeq(line, LAMBDA c : c = DoubleQuote)) % 2 = 1

\* C15, as claimed: a line with unbalanced quotes is executed as no command,
\* whatever command name it starts with: no operation is invoked, no input
\* event is posted and the task does not end.
C15_UnbalancedQuotesAreUnknown ==
  (AfterExecute /\ Unbalanced(action)) =>
    /\ op.name = "none"
    /\ events = <<>>
    /\ ~done

\* the size of the screen the mapper converts to
MapWidth == IF quartz THEN LogicalWidth ELSE FallbackWidth
MapHeight == IF quartz THEN LogicalHeight ELSE FallbackHeight

\* C16: clamp.  For every ratio pair with x and y between -1 and 2 the
\* device point of the mapper lies in 0..width-1 by 0..height-1, a ratio
\* below 0 going to 0 and a ratio above 1 to the last point; and the pair
\* the grammar parser extracts from a line lies between 0 and 1.
C16_ClampedToScreen ==
  /\ (ratio # NoRatio /\ action # <<>>) =>
       /\ 0 <= ratio.x.num /\ ratio.x.num <= ratio.x.den
       /\ 0 <= ratio.y.num /\ ratio.y.num <= ratio.y.den
  /\ device # NoPoint =>
       /\ 0 <= device.x /\ device.x <= MapWidth - 1
       /\ 0 <= device.y /\ device.y <= MapHeight - 1
       /\ ratio.x.num < 0 => device.x = 0
       /\ ratio.x.num > ratio.x.den => device.x = MapWidth - 1
       /\ ratio.y.num < 0 => device.y = 0
       /\ ratio.y.num > ratio.y.den => device.y = MapHeight - 1

\* C16: the ratio pair (-1, 2) was converted to the left end of the last row
C16_Witness ==
  /\ device # NoPoint
  /\ ratio.x.num = 0 - ratio.x.den
  /\ ratio.y.num = 2 * ratio.y.den
  /\ device.x = 0
  /\ device.y = MapHeight - 1

\* v is the integer nearest to n / d, the even one of two that are equally near
Nearest(v, n, d) ==
  /\ 2 * Abs(v * d - n) <= d
  /\ 2 * Abs(v * d - n) = d => v % 2 = 0

\* the numerator of a ratio over its own denominator, after the clamp
Clamped(r) == IF r.num < 0 THEN 0 ELSE IF r.num > r.den THEN r.den ELSE r.num

\* C17: the mapper rounds half to even and does not flip the vertical axis:
\* x is the integer nearest to ratio.x * (width - 1) and y the integer
\* nearest to ratio.y * (height - 1), ties going to the even integer; on
\* the 1920 by 1080 screen the ratio pair (0.5, 0.5) converts to (960, 540).
C17_RoundHalfEvenNoFlip ==
  device # NoPoint =>
    /\ Nearest(device.x, Clamped(ratio.x) * (MapWidth - 1), ratio.x.den)
    /\ Nearest(device.y, Clamped(ratio.y) * (MapHeight - 1), ratio.y.den)
    /\ (~quartz /\ 2 * ratio.x.num = ratio.x.den /\ 2 * ratio.y.num = ratio.y.den)
         => (device.x = 960 /\ device.y = 540)

\* C17: (0.5, 0.5) was converted to (960, 540) on the 1920 by 1080 screen
C17_Witness ==
  /\ ~quartz
  /\ ratio # NoRatio
  /\ 2 * ratio.x.num = ratio.x.den
  /\ 2 * ratio.y.num = ratio.y.den
  /\ device = [tag |-> "ok", x |-> 960, y |-> 540]

\* C19: the scale factor never affects the conversion: the device point is
\* the one the mapper returns on a display of the same logical size with
\* any other pixel width.
C19_ScaleNeverApplied ==
  device # NoPoint =>
    \A w \in PixelWidths :
      TransformOn(GetScreenInfo(quartz, w), ratio.x, ratio.y)
        = [x |-> device.x, y |-> device.y]

\* C19: on a display with two pixels per point the ratio pair (1, 1) was
\* converted to the last logical point
C19_Witness ==
  /\ quartz
  /\ pixels = 2 * LogicalWidth
  /\ device = [tag |-> "ok", x |-> LogicalWidth - 1, y |-> LogicalHeight - 1]
  /\ ratio.x.num = ratio.x.den
  /\ ratio.y.num = ratio.y.den

\* the integer a calibration variable of the environment holds
OffsetOf(env) == Trunc(EnvFloat(env).num, EnvFloat(env).den)

\* the point the claim gives a pointer command: the rounded ratio plus the
\* calibration offset
ClaimedTarget(coords) ==
  [x |-> RoundHalfEven(coords.x.num * (LogicalWidth - 1), coords.x.den)
           + OffsetOf(offsets.x),
   y |-> RoundHalfEven(coords.y.num * (LogicalHeight - 1), coords.y.den)
           + OffsetOf(offsets.y)]

\* the move events posted in this iteration
Moves == SelectSeq(events, LAMBDA e : e.type = "move")

\* C18, as claimed: the calibration offset is added to every conversion:
\* for each of move_mouse, left_click, double_click and hover the pointer is
\* moved to (round(r.x * (W - 1)) + dx, round(r.y * (H - 1)) + dy).
C18_OffsetAddedForEveryCommand ==
  (/\ AfterExecute
   /\ quartz
   /\ fault = "none"
   /\ op.name \in {"move_mouse", "left_click", "double_click", "hover"}
   /\ Moves # <<>>) =>
    /\ Moves[Len(Moves)].x = ClaimedTarget(op.arg).x
    /\ Moves[Len(Moves)].y = ClaimedTarget(op.arg).y

\* C20, as claimed: after save(dx, dy) has succeeded, load returns exactly
\* (dx, dy).
C20_SaveThenLoadRoundTrip ==
  (saved.status = "ok" /\ loaded.status = "ok") =>
    (loaded.x = saved.dx /\ loaded.y = saved.dy)

\* the lines of the file before a save
LinesBefore == IF envFile.exists THEN envFile.lines ELSE <<>>

\* the line binds one of the two offset keys
IsOffsetLine(line) == StartsWithKey(line, XOffsetKey) \/ StartsWithKey(line, YOffsetKey)

\* C21: a save that succeeds keeps every line of the file that does not bind
\* an offset key, as it was and where it was, and whatever it adds after the
\* lines the file had is an offset entry.
C21_OtherLinesPreserved ==
  [][(saved = NotSaved /\ saved'.status = "ok") =>
       /\ Len(envFile'.lines) >= Len(LinesBefore)
       /\ \A i \in 1..Len(LinesBefore) :
            IsOffsetLine(LinesBefore[i]) \/ envFile'.lines[i] = LinesBefore[i]
       /\ \A i \in (Len(LinesBefore) + 1)..Len(envFile'.lines) :
            IsOffsetLine(envFile'.lines[i])]_vars

Distance2 ==
  (segment.to.x - segment.from.x) * (segment.to.x - segment.from.x)
    + (segment.to.y - segment.from.y) * (segment.to.y - segment.from.y)

\* C23: after smooth_move_mouse with Quartz, between ends at least 5 apart
\* there are move events and the last one is exactly at the end given;
\* between ends less than 5 apart there is no move event.
C23_MotionEndsAtTarget ==
  (quartz /\ segment.tag # "given") =>
    IF Distance2 >= 5 * 5
      THEN /\ segment.events # <<>>
           /\ segment.events[Len(segment.events)] =
                [type |-> "move", x |-> segment.to.x, y |-> segment.to.y]
      ELSE segment.events = <<>>

C23_Witness ==
  /\ quartz
  /\ segment.tag = "moved"
  /\ segment.from = [x |-> 60, y |-> 40]
  /\ segment.to = [x |-> 63, y |-> 44]
  /\ Len(segment.events) = 11

\* the most move events of one call of smooth_move_mouse on this screen,
\* whose diagonal is shorter than 11 steps of 15
LegLength == MinMoveSteps + 1

\* C24: a click or a double click posts the move events of at most two
\* calls of smooth_move_mouse, the move to the target and one correction,
\* wherever the pointer is found after the correction.
C24_AtMostOneCorrection ==
  (AfterExecute /\ op.name \in {"left_click", "double_click"}) =>
    Len(Moves) <= 2 * LegLength

\* C24: a click whose pointer was found 8 off the target after the move and
\* 8 off again after the correction
C24_Witness ==
  /\ AfterExecute
  /\ quartz
  /\ op.name = "left_click"
  /\ fault = "none"
  /\ ~asked.spotlight
  /\ asked.start = "corner"
  /\ asked.drift = <<8, 0>>
  /\ asked.clickDrift = <<8, 0>>
  /\ Len(Moves) = 2 * LegLength

\* the pointer was found off the target by more than the tolerance of the
\* command: 5 for a click, 2 for a double click
DriftExceedsTolerance ==
  \E i \in 1..2 :
    Abs(asked.drift[i]) > (IF op.name = "left_click" THEN 5 ELSE 2)

\* the move events of the move to the target
FirstLeg == IF asked.start = "target" THEN 0 ELSE LegLength

\* C25, as claimed: when the pointer is found off the target by more than
\* the tolerance after the move, a click or a double click posts the move
\* events of a correction, which end at the target, before its button
\* events.
C25_DriftIsCorrected ==
  (/\ AfterExecute
   /\ quartz
   /\ fault = "none"
   /\ ~asked.spotlight
   /\ op.name \in {"left_click", "double_click"}
   /\ DriftExceedsTolerance) =>
    /\ Len(Moves) > FirstLeg
    /\ Moves[Len(Moves)].x = ClaimedTarget(op.arg).x
    /\ Moves[Len(Moves)].y = ClaimedTarget(op.arg).y

\* C26, as claimed: with Spotlight frontmost a click and a double click
\* post one press of the return key and nothing else: no move event and no
\* button event.
C26_OverlayReplacesEveryClick ==
  (/\ AfterExecute
   /\ quartz
   /\ fault = "none"
   /\ asked.spotlight
   /\ op.name \in {"left_click", "double_click"}) =>
    events = <<[type |-> "key_down", code |-> 36, flags |-> 0],
               [type |-> "key_up", code |-> 36, flags |-> 0]>>

\* the characters with a key code in the table of type_text, beside the
\* letters and the digits
TablePunctuation ==
  {" ", ".", "/", "-", "=", ",", ";", "'", "[", "]", "\\", BackTick}

\* the character has a key code in the table
HasKeyCode(c) ==
  \/ \E i \in 1..26 : c \in {LowerLetters[i], UpperLetters[i]}
  \/ c \in Digits
  \/ c \in TablePunctuation

\* the characters of the text typed that have a key code, in order
Typed == SelectSeq(op.arg, LAMBDA c : HasKeyCode(c))

\* C27: type_text posts, for each character of the text that has a key
\* code and in the order of the text, a key-down and then a key-up of that
\* code, and nothing for any other character; the key-down of an uppercase
\* letter carries the shift flag and no other key-down carries a flag, and
\* no key-up carries a flag.
C27_OnePairPerTypableCharacter ==
  (AfterExecute /\ quartz /\ fault = "none" /\ op.name = "type_text") =>
    /\ Len(events) = 2 * Len(Typed)
    /\ \A i \in 1..Len(Typed) :
         /\ events[2 * i - 1] =
              [type |-> "key_down", code |-> TypeKeyCode(LowerChar(Typed[i])),
               flags |-> IF IsUpper(Typed[i]) THEN 131072 ELSE 0]
         /\ events[2 * i] =
              [type |-> "key_up", code |-> TypeKeyCode(LowerChar(Typed[i])),
               flags |-> 0]

\* C27: "a+B 1?Z" was typed as a, B, space, 1 and Z
C27_Witness ==
  /\ AfterExecute
  /\ quartz
  /\ fault = "none"
  /\ op = Op("type_text", <<"a", "+", "B", " ", "1", "?", "Z">>)
  /\ Len(events) = 10
  /\ events[3] = [type |-> "key_down", code |-> 11, flags |-> 131072]
  /\ events[4] = [type |-> "key_up", code |-> 11, flags |-> 0]

\* main was started without a positional argument
NoPositional == argv = <<>>

\* main was started with a task, and neither the environment nor the file
\* .env holds a credential
TaskWithoutCredentials ==
  /\ argv # <<>>
  /\ Strip(argv[1]) \notin {<<"--calibrate">>, <<"calibrate">>}
  /\ apiKeys.google.text = <<>>
  /\ apiKeys.gemini.text = <<>>
  /\ \A i \in 1..Len(envFile.lines) :
       /\ ~StartsWithKey(envFile.lines[i], "GOOGLE_API_KEY")
       /\ ~StartsWithKey(envFile.lines[i], "GEMINI_API_KEY")

\* C28: started without a positional argument, main prints the usage and
\* exits with a code that is not zero; started with a task and without
\* credentials, it exits with a code that is not zero; in both cases there
\* is no capture, no call of think, no input event and no calibration.
C28_NoLoopWithoutArgumentOrCredentials ==
  (NoPositional \/ TaskWithoutCredentials) =>
    /\ pc \in {"main", "exited"}
    /\ captures = 0
    /\ plans = 0
    /\ events = <<>>
    /\ calib = CalibIdle
    /\ pc = "exited" =>
         /\ exitCode.tag = "exit"
         /\ exitCode.code # 0
         /\ NoPositional => exitCode.printed = "usage"

\* C28: a task, and a key that is set to the empty string
C28_Witness ==
  /\ pc = "exited"
  /\ argv = <<SettingsTask>>
  /\ apiKeys.google = SetTo(<<>>)
  /\ ~envFile.exists
  /\ exitCode = [tag |-> "exit", code |-> 1, printed |-> "no-key"]

\* the line is labelled Action:, plain or bold
IsActionLine(line) ==
  StartsWith(Strip(line), "Action:") \/ StartsWith(Strip(line), "**Action:**")

\* the reply has a line labelled Action:
HasActionLine(lines) == \E i \in 1..Len(lines) : IsActionLine(lines[i])

\* the first line of the reply labelled Action:
FirstActionLine(lines) ==
  lines[CHOOSE i \in 1..Len(lines) :
          IsActionLine(lines[i]) /\ \A j \in 1..(i - 1) : ~IsActionLine(lines[j])]

\* C29, as claimed: the action think takes from a reply with a line labelled
\* Action: is the action it takes from that first labelled line alone,
\* whatever the lines before it and after it are.
C29_OnlyFirstActionLineCounts ==
  (AfterThink /\ response.kind = "text" /\ HasActionLine(response.lines)) =>
    action = ParseReply(<<FirstActionLine(response.lines)>>).action

\* the line holds one of the 13 command names
NamesCommand(line) == \E i \in 1..Len(line) : line[i] \in CommandNames

\* the first line of the reply that holds a command name
FirstCommandLine(lines) ==
  lines[CHOOSE i \in 1..Len(lines) :
          NamesCommand(lines[i]) /\ \A j \in 1..(i - 1) : ~NamesCommand(lines[j])]

\* C30, as claimed: from a reply without a line labelled Action:, whose
\* lines hold a command name, think takes the first line that holds one as
\* the action, with or without See: and Think: lines, and not wait(1000).
C30_AnyCommandLineIsTheFallback ==
  (/\ AfterThink
   /\ response.kind = "text"
   /\ ~HasActionLine(response.lines)
   /\ \E i \in 1..Len(response.lines) : NamesCommand(response.lines[i])) =>
    action = Strip(Remove(Strip(FirstCommandLine(response.lines)), BackTick))

\* the line without the emphasis markup around it: the backticks and the
\* bold asterisks at its two ends
RECURSIVE Unwrapped(_)
Unwrapped(line) ==
  IF line # <<>> /\ Head(line) \in {BackTick, "**", " "} THEN Unwrapped(Tail(line))
  ELSE IF line # <<>> /\ line[Len(line)] \in {BackTick, "**", " "}
    THEN Unwrapped(SubSeq(line, 1, Len(line) - 1))
  ELSE line

\* what follows the label of the first line labelled Action:
LabelledAction == Strip(Tail(Strip(FirstActionLine(response.lines))))

\* C31, as claimed: the action of a reply is executed as the line within
\* its emphasis markup is: the same operation with the same argument, and
\* the same answer to whether the task is done.
C31_EmphasisIsStripped ==
  (/\ AfterExecute
   /\ response.kind = "text"
   /\ Len(response.lines) = 1
   /\ IsActionLine(response.lines[1])) =>
    \E r \in {ExecuteBody(quartz, offsets, Unwrapped(LabelledAction), asked)} :
      op = r.op /\ (fault = "none" => done = r.done)

\* the entry of an offset key a new process finds, and whether it is a
\* number
Entry(key) == DotenvValue(envFile, key)
FailsToParse(entry) == entry.set /\ ~ParseSignedFloat(entry.text).ok
ValueOf(entry) ==
  IF ~entry.set THEN 0
  ELSE Trunc(ParseSignedFloat(entry.text).num, ParseSignedFloat(entry.text).den)

\* C32: the offsets a new process applies are (0, 0) when both entries are
\* absent and when either entry fails to parse, and otherwise the value of
\* each entry, zero for an absent one.
C32_LoadDefaultsToZero ==
  loaded.status = "ok" =>
    IF FailsToParse(Entry(XOffsetKey)) \/ FailsToParse(Entry(YOffsetKey))
      THEN loaded.x = 0 /\ loaded.y = 0
      ELSE /\ loaded.x = ValueOf(Entry(XOffsetKey))
           /\ loaded.y = ValueOf(Entry(YOffsetKey))

\* C32: the x entry is "1.2.3" and the y entry is "-7"
C32_Witness ==
  /\ loaded = [status |-> "ok", x |-> 0, y |-> 0]
  /\ saved = NotSaved
  /\ envFile.lines = <<BadXLine, OldYLine>>

\* the file has the line key=value for the offset written
HoldsEntry(key, n) ==
  \E i \in 1..Len(envFile.lines) : envFile.lines[i] = <<key, "=">> \o IntToStr(n)

\* C33: a second call of _write_env_offsets with the same offsets leaves
\* the file as the first call left it, and after a call that succeeded the
\* file has a line with the new value for each of the two offset keys.
C33_SaveIsIdempotent ==
  /\ [][(saved.status = "ok" /\ saved'.status = "again") => envFile' = envFile]_vars
  /\ [](saved.status \in {"ok", "again"} =>
          HoldsEntry(XOffsetKey, saved.dx) /\ HoldsEntry(YOffsetKey, saved.dy))

\* C33: the offsets (3, -12) were written twice into a file that had an
\* entry for x and a form feed in another line
C33_Witness ==
  /\ saved = [status |-> "again", dx |-> 3, dy |-> 0 - 12]
  /\ envFile.lines =
       <<<<"NOTE", "=", "a">>, <<"b">>, <<XOffsetKey, "=", "3">>,
         <<YOffsetKey, "=", "-", "1", "2">>>>

\* _transform_coords was called and has ended
Converted == device # NoPoint \/ display = "raised"

\* C34, as claimed: _transform_coords always returns a point, and both
\* without Quartz and with a display that fails the queries the point is
\* the one of a screen of 1920 by 1080 points.
C34_MapperNeverRaises ==
  Converted =>
    /\ device # NoPoint
    /\ (~quartz \/ display # "answers") =>
         TransformOn([w |-> 1920, h |-> 1080, scale |-> Float(1, 1)], ratio.x, ratio.y)
           = [x |-> device.x, y |-> device.y]

\* the move events among what a motion did, in order
PostedMoves == SelectSeq(segment.trace, LAMBDA e : e.type = "move")

\* the trail appends among what a motion did, in order
TrailAppends == SelectSeq(segment.trace, LAMBDA e : e.type = "trail")

\* a motion with Quartz over a distance of 5 or more has ended
MovedFar == quartz /\ segment.tag = "moved" /\ Distance2 >= 25

\* steps + 1 moves for steps = max(10, floor(d / 15)), the point of step i
\* for each i of 0..steps, the first at the start and the last at the end
OneMovePerStep ==
  \E k \in 0..20 :
    /\ (15 * k) * (15 * k) <= Distance2
    /\ Distance2 < (15 * (k + 1)) * (15 * (k + 1))
    /\ LET steps == IF k > 10 THEN k ELSE 10
       IN  /\ Len(PostedMoves) = steps + 1
           /\ \A i \in 0..steps :
                PostedMoves[i + 1] = BezierPoint(segment.from, segment.to, i, steps)
           /\ PostedMoves[1] = MoveEvent(segment.from.x, segment.from.y)
           /\ PostedMoves[steps + 1] = MoveEvent(segment.to.x, segment.to.y)

\* C35, as claimed: a motion over a distance of 5 or more posts steps + 1
\* move events, the first at the start and the last at the end, and each
\* move event is followed by one trail append, of its point.
C35_EachMoveFollowedByAppend ==
  MovedFar =>
    /\ OneMovePerStep
    /\ Len(TrailAppends) = Len(PostedMoves)
    /\ \A k \in 1..Len(segment.trace) :
         segment.trace[k].type = "move" =>
           /\ k < Len(segment.trace)
           /\ segment.trace[k + 1] = TrailAppend(segment.trace[k])

\* C35, amended: a motion over a distance of 5 or more posts steps + 1 move
\* events, the first at the start and the last at the end; with the mouse
\* trail enabled each move event is preceded by one trail append, of its
\* point, and with the trail disabled nothing is appended.
C35_EachMovePrecededByAppend ==
  MovedFar =>
    /\ OneMovePerStep
    /\ IF trailEnabled
         THEN /\ Len(TrailAppends) = Len(PostedMoves)
              /\ \A k \in 1..Len(segment.trace) :
                   segment.trace[k].type = "move" =>
                     /\ k > 1
                     /\ segment.trace[k - 1] = TrailAppend(segment.trace[k])
         ELSE TrailAppends = <<>>

\* a motion of 11 steps with the trail enabled: 12 moves and 12 appends
C35_Witness ==
  /\ MovedFar
  /\ trailEnabled
  /\ Len(PostedMoves) = 12
  /\ Len(TrailAppends) = 12

\* where the loop stands after execute made r of the action of step s
ControlAfter(r, s) ==
  [done |-> r.done,
   op |-> r.op,
   step |-> IF r.escaped \/ r.done THEN s ELSE s + 1,
   pc |-> IF r.escaped \/ r.done \/ s + 1 = MaxSteps THEN "finished" ELSE "capture",
   outcome |-> IF r.escaped THEN "InjectionError"
               ELSE IF r.done THEN "Done"
               ELSE IF s + 1 = MaxSteps THEN "step-limit" ELSE "running"]

\* C36: without Quartz execute posts no event and no injection fails or
\* raises; and after each call of execute, with Quartz or without and
\* whatever the operating system answers, the loop stands where the call
\* without Quartz leaves it: same value returned, same operation invoked,
\* same step, same position in the loop and same outcome.
C36_BackendAgnostic ==
  /\ [](~quartz => (events = <<>> /\ fault = "none" /\ outcome # "InjectionError"))
  /\ [][pc = "execute" =>
          ControlAfter(Execute(FALSE, offsets, action, asked'), step)
            = [done |-> done', op |-> op', step |-> step', pc |-> pc',
               outcome |-> outcome']]_vars

\* without Quartz a left click was executed and the loop went on to the end
C36_Witness ==
  /\ ~quartz
  /\ op.name = "left_click"
  /\ events = <<>>
  /\ step > 1
  /\ pc = "finished"

\* C37: the trail never holds more than 15 points, its newest point has
\* opacity 1, and each point is fainter than every point appended after it.
C37_TrailIsBoundedAndFades ==
  /\ Len(trailPoints) <= 15
  /\ trailPoints # <<>> => trailPoints[Len(trailPoints)].opacity = FullOpacity
  /\ \A i \in 1..Len(trailPoints) : \A j \in (i + 1)..Len(trailPoints) :
       Fainter(trailPoints[i].opacity, trailPoints[j].opacity)

\* after a motion and queries of the pointer the trail has dropped its
\* oldest points: it holds points of the motion and of the queries
C37_Witness ==
  /\ segment.tag = "moved"
  /\ Len(segment.events) = 11
  /\ Len(trailPoints) = 12
  /\ [x |-> trailPoints[12].x, y |-> trailPoints[12].y] = segment.to
  /\ [x |-> trailPoints[11].x, y |-> trailPoints[11].y] = segment.to
  /\ [x |-> trailPoints[1].x, y |-> trailPoints[1].y] # segment.from

(***************************************************************************)
(* The loop against a collaborator that is rate-limited on every call      *)
(* (harvey.py 642-664, 931-975), with captures that succeed and a writable *)
(* directory.  run is a sequential program: a step that can be taken is    *)
(* taken.                                                                  *)
(***************************************************************************)
\* the errors of a rate-limited collaborator
RateLimitErrors == { ErrorReply(m) : m \in { RateLimit35, RateLimitBare, RateLimitHuge } }

InitLimited ==
  /\ quartz \in BOOLEAN
  /\ tts \in {"absent", "disabled", "on"}
  /\ offsets = [x |-> Unset, y |-> Unset]
  /\ task \in Tasks
  /\ pc = "capture"
  /\ step = 0
  /\ outcome = "running"
  /\ lastSee = <<>>
  /\ screenshot = FALSE
  /\ response = NoResponse
  /\ action = <<>>
  /\ slept = NoSleep
  /\ inferCalls = 0
  /\ narrated = FALSE
  /\ voice = "none"
  /\ fault = "none"
  /\ asked = NotAsked
  /\ done = FALSE
  /\ op = Op("none", NoArg)
  /\ events = <<>>
  /\ captures = 0
  /\ plans = 0
  /\ script = <<>>
  /\ openAppExecs = 0
  /\ otherExecs = 0
  /\ MapperIdle
  /\ StoreIdle
  /\ MotionIdle
  /\ Started

ThinkLimited == pc = "think" /\ \E r \in RateLimitErrors : ThinkStep(r)

NextLimited == CaptureOk \/ ThinkLimited \/ SpeakAny \/ ExecuteAny

SpecLimited == InitLimited /\ [][NextLimited]_vars /\ WF_vars(NextLimited)

\* the task makes the handler of think return the new-tab action
TriggersNewTab == FallbackAction(task, RateLimitBare) = NewTabAction

\* C38, as claimed: against a collaborator that is rate-limited on every
\* call the run ends; on a task that triggers the new-tab fallback every
\* step sleeps and then executes hotkey cmd+t, and the run ends at the step
\* limit after 20 steps; on any other task the run ends in Done at the
\* first step and no input event is posted.
C38_RateLimitedRunTerminates ==
  /\ <>(pc = "finished")
  /\ [](pc = "finished" =>
         IF TriggersNewTab THEN outcome = "step-limit" /\ step = MaxSteps
         ELSE outcome = "Done" /\ step = 0)
  /\ [](~TriggersNewTab => events = <<>>)
  /\ [][(pc = "execute" /\ TriggersNewTab) =>
          (slept.sleeps /\ op'.name = "hotkey" /\ op'.arg = CmdT)]_vars

\* the indices of the mouse-down events posted in this iteration
Presses == { i \in 1..Len(events) : events[i].type = "mouse_down" }

\* the indices of the mouse-up events posted in this iteration
Releases == { i \in 1..Len(events) : events[i].type = "mouse_up" }

\* C39: when no injection fails, each mouse-down event is followed at once
\* by a mouse-up event at the same point and each mouse-up event follows
\* such a mouse-down event; a click that Spotlight does not replace posts
\* one such pair, a double click posts two, both at the calibrated target,
\* and no other command posts any.
C39_ButtonEventsComeInPairs ==
  (AfterExecute /\ quartz /\ asked.fault = "none") =>
    /\ \A i \in Presses :
         /\ i < Len(events)
         /\ events[i + 1] = MouseUp([x |-> events[i].x, y |-> events[i].y])
    /\ \A i \in Releases : i - 1 \in Presses
    /\ Cardinality(Presses) =
         (IF op.name = "left_click" /\ ~asked.spotlight THEN 1
          ELSE IF op.name = "double_click" THEN 2 ELSE 0)
    /\ op.name = "double_click" =>
         \A i \in Presses : events[i] = MouseDown(ClaimedTarget(op.arg))

\* a double click with offsets of 3 and -2: two pairs at the shifted target
C39_Witness ==
  /\ AfterExecute
  /\ quartz
  /\ asked.fault = "none"
  /\ op.name = "double_click"
  /\ OffsetOf(offsets.x) = 3
  /\ Cardinality(Presses) = 2
  /\ Cardinality(Releases) = 2

====
